---- MODULE Spec2Model ----
(***************************************************************************)
(* Reference-guided conditioning (RefCN / ContextRef) of                   *)
(* adv_control/control_reference.py: the forward interceptor               *)
(* (factory_forward_inject_UNetModel), the per-layer attention and         *)
(* normalization injections with their banks, and ReferenceAdvanced's      *)
(* should_run.                                                             *)
(*                                                                         *)
(* Floats are fixed-point integers: One stands for 1.0.  A tensor is       *)
(* modelled by the tag of the input it was computed from: the id of the    *)
(* RefCN unit whose hint is forwarded in a reference pass, RealInput for   *)
(* the caller's latent.                                                    *)
(***************************************************************************)
EXTENDS Integers, Sequences, FiniteSets, TLC

\* ------------------------------------------------------------------------
\* Numbers

\* the float 1.0 (the initial holder threshold, the default strength)
One == 1000
Half == One \div 2
\* math.isclose's default rel_tol is 1e-09 (its abs_tol is 0.0)
RelTolInv == 1000000000

Abs(a) == IF a < 0 THEN -a ELSE a
Max2(a, b) == IF a >= b THEN a ELSE b

\* math.isclose(a, b): abs(a-b) <= max(rel_tol * max(abs(a), abs(b)), abs_tol)
IsClose(a, b) == Abs(a - b) <= Max2(Max2(Abs(a), Abs(b)) \div RelTolInv, 0)

\* ------------------------------------------------------------------------
\* MachineState, ReferenceType

WRITE == "write"
READ == "read"
OFF == "off"
MachineStates == {WRITE, READ, OFF}

ATTN == "reference_attn"
ADAIN == "reference_adain"
ATTN_ADAIN == "reference_attn+adain"
STYLE_ALIGN == "StyleAlign"

LIST_ATTN == {ATTN, ATTN_ADAIN}
LIST_ADAIN == {ADAIN, ATTN_ADAIN}

is_attn(ref_type) == ref_type \in LIST_ATTN
is_adain(ref_type) == ref_type \in LIST_ADAIN

\* ------------------------------------------------------------------------
\* ReferenceOptions / ReferenceAdvanced: one unit is a record
\*   id                  the object's identity
\*   order, is_context_ref
\*   reference_type, attn_ref_weight, adain_ref_weight, attn_strength,
\*   adain_strength, attn_style_fidelity, adain_style_fidelity,
\*   ref_with_other_cns  (its ref_opts)
\*   base_run            what the base class's should_run answers this step

Unit(id, order, ctxref, type, aw, gw, as, gs, af, gf, others, base) ==
    [id |-> id, order |-> order, is_context_ref |-> ctxref,
     reference_type |-> type,
     attn_ref_weight |-> aw, adain_ref_weight |-> gw,
     attn_strength |-> as, adain_strength |-> gs,
     attn_style_fidelity |-> af, adain_style_fidelity |-> gf,
     ref_with_other_cns |-> others, base_run |-> base]

\* ReferenceOptions.create_combo: one fidelity and one weight for both
\* channels, strengths left at their default 1.0
create_combo(id, order, type, style_fidelity, ref_weight, others, base) ==
    Unit(id, order, FALSE, type, ref_weight, ref_weight, One, One,
         style_fidelity, style_fidelity, others, base)

should_run_mut_ignore_strength(u) ==
    IF ~u.base_run THEN FALSE
    ELSE LET attn_run == is_attn(u.reference_type) /\ ~IsClose(u.attn_ref_weight, 0)
             adain_run == is_adain(u.reference_type) /\ ~IsClose(u.adain_ref_weight, 0)
         IN attn_run \/ adain_run

should_run_mut_ignore_type(u) ==
    IF ~u.base_run THEN FALSE
    ELSE LET attn_run == ~(IsClose(u.attn_ref_weight, 0) \/ IsClose(u.attn_strength, 0))
             adain_run == ~(IsClose(u.adain_ref_weight, 0) \/ IsClose(u.adain_strength, 0))
         IN attn_run \/ adain_run

\* ReferenceAdvanced.should_run
should_run(u) ==
    IF ~u.base_run THEN FALSE
    ELSE LET attn_run == is_attn(u.reference_type)
                         /\ ~(IsClose(u.attn_ref_weight, 0) \/ IsClose(u.attn_strength, 0))
             adain_run == is_adain(u.reference_type)
                          /\ ~(IsClose(u.adain_ref_weight, 0) \/ IsClose(u.adain_strength, 0))
         IN attn_run \/ adain_run

Running_mut_no_filter(units) == units

\* [z for z in units if z.should_run()]
RECURSIVE Running(_)
Running(units) ==
    IF units = <<>> THEN <<>>
    ELSE (IF should_run(Head(units)) THEN <<Head(units)>> ELSE <<>>) \o Running(Tail(units))

RECURSIVE FilterType(_, _)
FilterType(units, types) ==
    IF units = <<>> THEN <<>>
    ELSE (IF Head(units).reference_type \in types THEN <<Head(units)>> ELSE <<>>)
         \o FilterType(Tail(units), types)

Range(s) == {s[i] : i \in 1..Len(s)}

SeqSum(s) == LET RECURSIVE Go(_)
                 Go(t) == IF t = <<>> THEN 0 ELSE Head(t) + Go(Tail(t))
             IN Go(s)

\* ------------------------------------------------------------------------
\* Banks and holders.  A holder record carries its threshold and the
\* sequences of its bank_styles.

RealInput == 0

\* InjectionBasicTransformerBlockHolder.__init__ with BankStylesBasicTransformerBlock.__init__
NewAttnHolder ==
    [attn_weight |-> One,
     bank |-> <<>>, style_cfgs |-> <<>>, cn_idx |-> <<>>,
     c_bank |-> <<>>, c_style_cfgs |-> <<>>, c_cn_idx |-> <<>>]

\* InjectionTimestepEmbedSequentialHolder.__init__ with BankStylesTimestepEmbedSequential.__init__
NewGnHolder ==
    [gn_weight |-> One,
     var_bank |-> <<>>, mean_bank |-> <<>>, style_cfgs |-> <<>>, cn_idx |-> <<>>,
     c_var_bank |-> <<>>, c_mean_bank |-> <<>>, c_style_cfgs |-> <<>>, c_cn_idx |-> <<>>]

\* BankStylesBasicTransformerBlock.get_bank / get_cn_idxs / get_avg_style_fidelity
get_bank(h, ignore_contextref) ==
    IF ignore_contextref THEN h.bank ELSE h.bank \o h.c_bank

get_cn_idxs_mut_ignores_flag(h, ignore_contextref) == h.cn_idx \o h.c_cn_idx

get_cn_idxs(h, ignore_contextref) ==
    IF ignore_contextref THEN h.cn_idx ELSE h.cn_idx \o h.c_cn_idx

get_avg_style_fidelity(h, ignore_contextref) ==
    LET combined == IF ignore_contextref THEN h.style_cfgs
                    ELSE h.style_cfgs \o h.c_style_cfgs
    IN SeqSum(combined) \div Len(combined)

\* BankStylesTimestepEmbedSequential.get_var_bank / get_mean_bank / get_style_cfgs / get_cn_idx
get_var_bank(h, ignore_contextref) ==
    IF ignore_contextref THEN h.var_bank ELSE h.var_bank \o h.c_var_bank

get_mean_bank(h, ignore_contextref) ==
    IF ignore_contextref THEN h.mean_bank ELSE h.mean_bank \o h.c_mean_bank

get_style_cfgs(h, ignore_contextref) ==
    IF ignore_contextref THEN h.style_cfgs ELSE h.style_cfgs \o h.c_style_cfgs

get_cn_idx(h, ignore_contextref) ==
    IF ignore_contextref THEN h.cn_idx ELSE h.cn_idx \o h.c_cn_idx

attn_clean_ref_mut_keep_cn_idx(h) == [h EXCEPT !.bank = <<>>, !.style_cfgs = <<>>]

\* BankStylesBasicTransformerBlock.clean_ref / clean_contextref / clean_all
attn_clean_ref(h) == [h EXCEPT !.bank = <<>>, !.style_cfgs = <<>>, !.cn_idx = <<>>]

attn_clean_contextref(h) ==
    [h EXCEPT !.c_bank = <<>>, !.c_style_cfgs = <<>>, !.c_cn_idx = <<>>]

attn_clean_all(h) == attn_clean_contextref(attn_clean_ref(h))

gn_clean_ref_mut_clears_context(h) ==
    [h EXCEPT !.var_bank = <<>>, !.mean_bank = <<>>, !.style_cfgs = <<>>, !.cn_idx = <<>>,
              !.c_var_bank = <<>>, !.c_mean_bank = <<>>,
              !.c_style_cfgs = <<>>, !.c_cn_idx = <<>>]

\* BankStylesTimestepEmbedSequential.clean_ref / clean_contextref / clean_all
gn_clean_ref(h) ==
    [h EXCEPT !.var_bank = <<>>, !.mean_bank = <<>>, !.style_cfgs = <<>>, !.cn_idx = <<>>]

gn_clean_contextref(h) ==
    [h EXCEPT !.c_var_bank = <<>>, !.c_mean_bank = <<>>,
              !.c_style_cfgs = <<>>, !.c_cn_idx = <<>>]

gn_clean_all(h) == gn_clean_contextref(gn_clean_ref(h))

\* ------------------------------------------------------------------------
\* The order-matching loop shared by both READs: for each bank entry, scan
\* the read-list forward from the last match position (cn_idx) for the unit
\* of the entry's order, then assert that the unit at cn_idx has that order.
\* Positions are 1-based here.  The answer: ok (no assertion failed) and
\* the read-list position paired with each entry.

MinOf(S) == CHOOSE x \in S : \A y \in S : x <= y

PositionAnyMatch(orders, ref_read_cns) ==
    LET RECURSIVE Go(_, _, _)
        Go(rest, cn_idx, acc) ==
            IF rest = <<>> THEN [ok |-> TRUE, pos |-> acc]
            ELSE Go(Tail(rest), cn_idx, Append(acc, cn_idx))
    IN Go(orders, 1, <<>>)

MatchOrders(orders, ref_read_cns) ==
    LET RECURSIVE Go(_, _, _)
        Go(rest, cn_idx, acc) ==
            IF rest = <<>> THEN [ok |-> TRUE, pos |-> acc]
            ELSE LET order == Head(rest)
                     found == {i \in cn_idx..Len(ref_read_cns) :
                                  ref_read_cns[i].order = order}
                     next_idx == IF found # {} THEN MinOf(found) ELSE cn_idx
                 IN IF ref_read_cns[next_idx].order # order
                    THEN [ok |-> FALSE, pos |-> acc]
                    ELSE Go(Tail(rest), next_idx, Append(acc, next_idx))
    IN Go(orders, 1, <<>>)

\* What one READ did: did (it consumed the bank and blended), failed (its
\* assertion failed), orders (the orders of the entries it was given), units
\* (the id of the read-list unit paired with each entry), fid (the fidelity
\* of the final blend), n_ctx (how many of the entries were context-origin).
NoRead == [did |-> FALSE, failed |-> FALSE, orders |-> <<>>, units |-> <<>>,
           fid |-> 0, n_ctx |-> 0]

FailedRead(orders) == [NoRead EXCEPT !.failed = TRUE, !.orders = orders]

\* The loop over the bank entries of a READ of holder h, given their orders:
\* the assertion fails and h stays as it is, or every entry is blended with
\* its paired unit and h's own-origin bank is cleared (cleaned).
ReadWith(h, cleaned, orders, ref_read_cns, fid) ==
    LET Matched(m) ==
            IF ~m.ok
            THEN [h |-> h, raised |-> TRUE, read |-> FailedRead(orders)]
            ELSE [h |-> cleaned, raised |-> FALSE,
                  read |-> [did |-> TRUE, failed |-> FALSE, orders |-> orders,
                            units |-> [k \in 1..Len(m.pos) |-> ref_read_cns[m.pos[k]].id],
                            fid |-> fid,
                            n_ctx |-> Len(orders) - Len(h.cn_idx)]]
    IN Matched(MatchOrders(orders, ref_read_cns))

\* ------------------------------------------------------------------------
\* Attention injection: _forward_inject_BasicTransformerBlock, the part
\* between norm1 and the attn1 output.  n is the tag of the layer's input.
\* The answer: the holder afterwards, raised (the assertion failed), and what
\* the READ consumed.

AttnWrite_mut_ge(h, ref_write_cns, n) ==
    LET RECURSIVE Go(_, _)
        Go(st, rest) ==
            IF rest = <<>> THEN st
            ELSE LET refcn == Head(rest)
                     first == ref_write_cns[1]
                     g == st.h
                 IN IF refcn.attn_ref_weight >= g.attn_weight
                    THEN IF refcn.is_context_ref
                         THEN Go([h |-> [g EXCEPT
                                     !.c_bank = Append(@, n),
                                     !.c_style_cfgs = Append(@, first.attn_style_fidelity),
                                     !.c_cn_idx = Append(@, first.order)],
                                  ignore |-> TRUE], Tail(rest))
                         ELSE Go([h |-> [g EXCEPT
                                     !.bank = Append(@, n),
                                     !.style_cfgs = Append(@, first.attn_style_fidelity),
                                     !.cn_idx = Append(@, first.order)],
                                  ignore |-> st.ignore], Tail(rest))
                    ELSE Go(st, Tail(rest))
    IN Go([h |-> h, ignore |-> FALSE], ref_write_cns)

\* the WRITE loop
AttnWrite(h, ref_write_cns, n) ==
    LET RECURSIVE Go(_, _)
        Go(st, rest) ==
            IF rest = <<>> THEN st
            ELSE LET refcn == Head(rest)
                     first == ref_write_cns[1]
                     g == st.h
                 IN IF refcn.attn_ref_weight > g.attn_weight
                    THEN IF refcn.is_context_ref
                         THEN Go([h |-> [g EXCEPT
                                     !.c_bank = Append(@, n),
                                     !.c_style_cfgs = Append(@, first.attn_style_fidelity),
                                     !.c_cn_idx = Append(@, first.order)],
                                  ignore |-> TRUE], Tail(rest))
                         ELSE Go([h |-> [g EXCEPT
                                     !.bank = Append(@, n),
                                     !.style_cfgs = Append(@, first.attn_style_fidelity),
                                     !.cn_idx = Append(@, first.order)],
                                  ignore |-> st.ignore], Tail(rest))
                    ELSE Go(st, Tail(rest))
    IN Go([h |-> h, ignore |-> FALSE], ref_write_cns)

\* the READ branch and its else
AttnRead(h, ignore_contextref_read, ref_read_cns) ==
    IF Len(ref_read_cns) > 0 /\ Len(get_bank(h, ignore_contextref_read)) > 0
    THEN ReadWith(h, attn_clean_ref(h), get_cn_idxs(h, ignore_contextref_read),
                  ref_read_cns, get_avg_style_fidelity(h, ignore_contextref_read))
    ELSE [h |-> h, raised |-> FALSE, read |-> NoRead]

\* A slot of the READ's output is a mix of the two attention results the
\* READ computes: ext, attention over the context extended by the bank
\* entries, and self, attention over the layer's own context alone.
PureExt == [self |-> 0, ext |-> One]
PureSelf == [self |-> One, ext |-> 0]

AttnBlend_mut_all_slots(style_fidelity, uc, s) ==
    LET n_uc == PureExt
        n_c == IF uc # {} /\ ~IsClose(style_fidelity, 0) THEN PureSelf ELSE n_uc
    IN [self |-> (style_fidelity * n_c.self + (One - style_fidelity) * n_uc.self) \div One,
        ext |-> (style_fidelity * n_c.ext + (One - style_fidelity) * n_uc.ext) \div One]

\* slot s of n = style_fidelity * n_c + (1.0 - style_fidelity) * n_uc, where
\* n_c is n_uc with the slots of uc_idx_mask replaced by plain self-attention
AttnBlend(style_fidelity, uc, s) ==
    LET n_uc == PureExt
        n_c == IF uc # {} /\ ~IsClose(style_fidelity, 0) /\ s \in uc
               THEN PureSelf ELSE n_uc
    IN [self |-> (style_fidelity * n_c.self + (One - style_fidelity) * n_uc.self) \div One,
        ext |-> (style_fidelity * n_c.ext + (One - style_fidelity) * n_uc.ext) \div One]

forward_inject_BasicTransformerBlock(h, ref_write_cns, ref_read_cns, n) ==
    LET AfterWrite(w) == AttnRead(w.h, w.ignore, ref_read_cns)
    IN AfterWrite(AttnWrite(h, ref_write_cns, n))

\* ------------------------------------------------------------------------
\* Normalization injection: forward_timestep_embed_ref_inject, after the
\* block's own output x is computed.

GnWrite_mut_ge(h, ref_write_cns, x) ==
    LET RECURSIVE Go(_, _)
        Go(st, rest) ==
            IF rest = <<>> THEN st
            ELSE LET refcn == Head(rest)
                     g == st.h
                 IN IF refcn.adain_ref_weight >= g.gn_weight
                    THEN IF refcn.is_context_ref
                         THEN Go([h |-> [g EXCEPT
                                     !.c_var_bank = Append(@, x),
                                     !.c_mean_bank = Append(@, x),
                                     !.c_style_cfgs = Append(@, refcn.adain_style_fidelity),
                                     !.c_cn_idx = Append(@, refcn.order)],
                                  ignore |-> TRUE], Tail(rest))
                         ELSE Go([h |-> [g EXCEPT
                                     !.var_bank = Append(@, x),
                                     !.mean_bank = Append(@, x),
                                     !.style_cfgs = Append(@, refcn.adain_style_fidelity),
                                     !.cn_idx = Append(@, refcn.order)],
                                  ignore |-> st.ignore], Tail(rest))
                    ELSE Go(st, Tail(rest))
    IN Go([h |-> h, ignore |-> FALSE], ref_write_cns)

\* the WRITE loop
GnWrite(h, ref_write_cns, x) ==
    LET RECURSIVE Go(_, _)
        Go(st, rest) ==
            IF rest = <<>> THEN st
            ELSE LET refcn == Head(rest)
                     g == st.h
                 IN IF refcn.adain_ref_weight > g.gn_weight
                    THEN IF refcn.is_context_ref
                         THEN Go([h |-> [g EXCEPT
                                     !.c_var_bank = Append(@, x),
                                     !.c_mean_bank = Append(@, x),
                                     !.c_style_cfgs = Append(@, refcn.adain_style_fidelity),
                                     !.c_cn_idx = Append(@, refcn.order)],
                                  ignore |-> TRUE], Tail(rest))
                         ELSE Go([h |-> [g EXCEPT
                                     !.var_bank = Append(@, x),
                                     !.mean_bank = Append(@, x),
                                     !.style_cfgs = Append(@, refcn.adain_style_fidelity),
                                     !.cn_idx = Append(@, refcn.order)],
                                  ignore |-> st.ignore], Tail(rest))
                    ELSE Go(st, Tail(rest))
    IN Go([h |-> h, ignore |-> FALSE], ref_write_cns)

\* GnRead_mut_always_cleans: clean_ref also without a read-list
GnRead_mut_always_cleans(h, ignore_contextref_read, ref_read_cns) ==
    IF Len(ref_read_cns) > 0
    THEN IF Len(get_var_bank(h, ignore_contextref_read)) > 0
         THEN LET Last(cfgs) == cfgs[Len(cfgs)]
              IN ReadWith(h, gn_clean_ref(h), get_cn_idx(h, ignore_contextref_read),
                          ref_read_cns,
                          Last(get_style_cfgs(h, ignore_contextref_read)))
         ELSE [h |-> gn_clean_ref(h), raised |-> FALSE, read |-> NoRead]
    ELSE [h |-> gn_clean_ref(h), raised |-> FALSE, read |-> NoRead]

\* GnRead_mut_avg_fidelity: the blend at the average fidelity of the entries
GnRead_mut_avg_fidelity(h, ignore_contextref_read, ref_read_cns) ==
    IF Len(ref_read_cns) > 0
    THEN IF Len(get_var_bank(h, ignore_contextref_read)) > 0
         THEN LET Avg(cfgs) == SeqSum(cfgs) \div Len(cfgs)
              IN ReadWith(h, gn_clean_ref(h), get_cn_idx(h, ignore_contextref_read),
                          ref_read_cns,
                          Avg(get_style_cfgs(h, ignore_contextref_read)))
         ELSE [h |-> gn_clean_ref(h), raised |-> FALSE, read |-> NoRead]
    ELSE [h |-> h, raised |-> FALSE, read |-> NoRead]

\* the READ branch: clean_ref runs whenever there is a read-list
GnRead(h, ignore_contextref_read, ref_read_cns) ==
    IF Len(ref_read_cns) > 0
    THEN IF Len(get_var_bank(h, ignore_contextref_read)) > 0
         THEN LET Last(cfgs) == cfgs[Len(cfgs)]
              IN ReadWith(h, gn_clean_ref(h), get_cn_idx(h, ignore_contextref_read),
                          ref_read_cns,
                          Last(get_style_cfgs(h, ignore_contextref_read)))
         ELSE [h |-> gn_clean_ref(h), raised |-> FALSE, read |-> NoRead]
    ELSE [h |-> h, raised |-> FALSE, read |-> NoRead]

forward_timestep_embed_ref_inject(h, ref_write_cns, ref_read_cns, x) ==
    LET AfterWrite(w) == GnRead(w.h, w.ignore, ref_read_cns)
    IN AfterWrite(GnWrite(h, ref_write_cns, x))

\* openaimodel.forward_timestep_embed as it stands after `depth` nested
\* substitutions: each wrapper first calls the function it wrapped, then
\* runs its own WRITE and READ; an assertion error unwinds all of them.
forward_timestep_embed_call(h, depth, ref_write_cns, ref_read_cns, x) ==
    LET Wrapper(st, r) == [h |-> r.h, raised |-> r.raised,
                           read |-> IF r.read.did \/ r.read.failed THEN r.read
                                    ELSE st.read]
        RECURSIVE Go(_, _)
        Go(st, d) ==
            IF d = 0 \/ st.raised THEN st
            ELSE Go(Wrapper(st, forward_timestep_embed_ref_inject(
                                    st.h, ref_write_cns, ref_read_cns, x)), d - 1)
    IN Go([h |-> h, raised |-> FALSE, read |-> NoRead], depth)

\* ------------------------------------------------------------------------
\* The patched network: Blocks are its TimestepEmbedSequential blocks, each
\* holding one BasicTransformerBlock.  One forward pass calls, block after
\* block, the block's attention layer and then the block's normalization
\* injection (the dispatch function as it stands).

Blocks == {1, 2}
NumBlocks == Cardinality(Blocks)

\* A pass may be ended by an exception of the network itself before block
\* b (fail_at = b) or after the last block (fail_at = NumBlocks + 1);
\* NoFail: the network raises nothing.
NoFail == 0
FailPoints == {NoFail} \cup (2..(NumBlocks + 1))

NoReads == [b \in Blocks |-> NoRead]

Lists(read_attn, write_attn, read_adain, write_adain) ==
    [read_attn |-> read_attn, write_attn |-> write_attn,
     read_adain |-> read_adain, write_adain |-> write_adain]

NoLists == Lists(<<>>, <<>>, <<>>, <<>>)

\* diffusion_model_orig_forward(x, ...) on the patched layers: am, gm the
\* holders, depth the dispatch function, l the lists the layers find in
\* transformer_options, x the input's tag.
ForwardPass(am, gm, depth, l, x, fail_at) ==
    LET \* one block: its attention layer, then its normalization injection
        Normalization(st, b, a, g) ==
            [st EXCEPT !.am[b] = a.h, !.gm[b] = g.h,
                       !.attn_reads[b] = a.read, !.gn_reads[b] = g.read,
                       !.raised = g.raised, !.asserted = g.raised]
        Attention(st, b, a) ==
            IF a.raised
            THEN [st EXCEPT !.am[b] = a.h, !.attn_reads[b] = a.read,
                            !.raised = TRUE, !.asserted = TRUE]
            ELSE Normalization(st, b, a,
                               forward_timestep_embed_call(
                                   st.gm[b], depth, l.write_adain, l.read_adain, x))
        Block(st, b) ==
            Attention(st, b, forward_inject_BasicTransformerBlock(
                                 st.am[b], l.write_attn, l.read_attn, x))
        RECURSIVE Go(_, _)
        Go(st, b) ==
            IF st.raised \/ b > NumBlocks THEN st
            ELSE IF fail_at = b THEN [st EXCEPT !.raised = TRUE]
            ELSE Go(Block(st, b), b + 1)
        End(done) == IF ~done.raised /\ fail_at = NumBlocks + 1
                     THEN [done EXCEPT !.raised = TRUE]
                     ELSE done
    IN End(Go([am |-> am, gm |-> gm, raised |-> FALSE, asserted |-> FALSE,
               attn_reads |-> NoReads, gn_reads |-> NoReads], 1))

\* ------------------------------------------------------------------------
\* ReferenceInjections: the registry reg holds the lists attn_modules and
\* gn_modules (the blocks whose layers are registered, in list order) and
\* diffusion_model_orig_forward.  The holders themselves are am and gm.

\* the value of a module's injection_holder when none was assigned
NoHolder == [injection_holder |-> "None"]

\* a callable that is None
NoForward == "None"
\* the network's own top-level forward
UNetForward == "UNetModel.forward"

BlockList == [b \in 1..NumBlocks |-> b]

\* ReferenceInjections.__init__ with every patched layer, and the original
\* top-level forward stored by the patching code
Registered ==
    [attn_modules |-> BlockList, gn_modules |-> BlockList,
     diffusion_model_orig_forward |-> UNetForward]

\* holder.clean_ref(), holder.clean_contextref() or holder.clean_all() of an
\* attention holder ("attn") or a normalization holder ("gn")
HolderClean(kind, op, h) ==
    IF kind = "attn"
    THEN CASE op = "clean_ref" -> attn_clean_ref(h)
           [] op = "clean_contextref" -> attn_clean_contextref(h)
           [] OTHER -> attn_clean_all(h)
    ELSE CASE op = "clean_ref" -> gn_clean_ref(h)
           [] op = "clean_contextref" -> gn_clean_contextref(h)
           [] OTHER -> gn_clean_all(h)

\* module.injection_holder.clean_...(): an AttributeError when the module
\* has no holder
HolderCall(kind, op, h) ==
    IF h = NoHolder THEN [h |-> h, raised |-> TRUE]
    ELSE [h |-> HolderClean(kind, op, h), raised |-> FALSE]

Guarded_mut_reraise(r) == r

\* try: ... except Exception: pass
Guarded(r) == [h |-> r.h, raised |-> FALSE]

\* for module in modules: try: module.injection_holder.clean_...()
CleanEach(ms, modules, kind, op) ==
    LET RECURSIVE Go(_, _)
        Go(st, rest) ==
            IF rest = <<>> \/ st.raised THEN st
            ELSE LET Step(r) == Go([ms |-> [st.ms EXCEPT ![Head(rest)] = r.h],
                                    raised |-> r.raised], Tail(rest))
                 IN Step(Guarded(HolderCall(kind, op, st.ms[Head(rest)])))
    IN Go([ms |-> ms, raised |-> FALSE], modules)

\* the loop over the attention modules, then the loop over the
\* normalization modules
CleanBoth(reg, am, gm, op) ==
    LET Gn(a) ==
            IF a.raised THEN [am |-> a.ms, gm |-> gm, raised |-> TRUE]
            ELSE LET Done(g) == [am |-> a.ms, gm |-> g.ms, raised |-> g.raised]
                 IN Done(CleanEach(gm, reg.gn_modules, "gn", op))
    IN Gn(CleanEach(am, reg.attn_modules, "attn", op))

clean_ref_module_mem_mut_attn_only(reg, am, gm) ==
    [am |-> [b \in Blocks |-> attn_clean_ref(am[b])], gm |-> gm, raised |-> FALSE]

clean_ref_module_mem(reg, am, gm) == CleanBoth(reg, am, gm, "clean_ref")

clean_contextref_module_mem(reg, am, gm) == CleanBoth(reg, am, gm, "clean_contextref")

clean_all_module_mem(reg, am, gm) == CleanBoth(reg, am, gm, "clean_all")

cleanup_mut_keep_forward(reg, am, gm) ==
    LET Cleared(c) ==
            [reg |-> [reg EXCEPT !.attn_modules = <<>>, !.gn_modules = <<>>],
             am |-> c.am, gm |-> c.gm, raised |-> FALSE]
    IN Cleared(clean_all_module_mem(reg, am, gm))

\* ReferenceInjections.cleanup
cleanup(reg, am, gm) ==
    LET Cleared(c) ==
            IF c.raised THEN [reg |-> reg, am |-> c.am, gm |-> c.gm, raised |-> TRUE]
            ELSE [reg |-> [attn_modules |-> <<>>, gn_modules |-> <<>>,
                           diffusion_model_orig_forward |-> NoForward],
                  am |-> c.am, gm |-> c.gm, raised |-> FALSE]
    IN Cleared(clean_all_module_mem(reg, am, gm))

\* A layer's callables: forward, the layer's forward attribute, and
\* original_forward, what its holder captured when it was created.
OrigForward == "original"
InjectedForward == "inject"

\* InjectionBasicTransformerBlockHolder.__init__ /
\* InjectionTimestepEmbedSequentialHolder.__init__ on a layer whose forward
\* is f, followed by the patching code's installation of the injection
Patched(f) == [forward |-> InjectedForward, original_forward |-> f]

\* InjectionBasicTransformerBlockHolder.restore /
\* InjectionTimestepEmbedSequentialHolder.restore
restore(l) == [l EXCEPT !.forward = l.original_forward]

\* ------------------------------------------------------------------------
\* State

VARIABLES
    attn_modules,            \* block -> holder of its attention layer
    gn_modules,              \* block -> holder of its normalization block
    forward_timestep_embed,  \* openaimodel.forward_timestep_embed: the number
                             \* of wrappers around the original (0: original)
    context_ref_list,        \* transformer_options[CONTEXTREF_CONTROL_LIST_ALL]
    pc,                      \* where the interceptor stands
    ref_all,                 \* transformer_options[REF_CONTROL_LIST_ALL] of the call
    ref_controlnets,         \* the call's running RefCN units
    context_controlnets,     \* the call's running ContextRef units
    machine,                 \* CONTEXTREF_ATTN/ADAIN_MACHINE_STATE of the call
    orig_forward_timestep_embed, \* the local of that name (Unbound: not assigned)
    next_ref,                \* position of the next reference pass
    topts,                   \* what the interceptor wrote into transformer_options
    passes,                  \* the forward passes of the call, in order
    attn_reads, gn_reads,    \* per block, what the READ of the last pass consumed
    outcome,                 \* how the call ended
    uc_idx_mask,             \* transformer_options[REF_UNCOND_IDXS] as the layer
                             \* whose blend is recorded finds it
    n_out,                   \* batch slot -> what that layer's READ put out
    reference_injections,    \* the registry: its two module lists and
                             \* diffusion_model_orig_forward
    layer_forward,           \* per kind of layer and block, the layer's forward
                             \* and its holder's original_forward
    ctx_phase,               \* history of the calls with running ContextRef
                             \* units: "written" after one with attention
                             \* state WRITE, "read" after one with state READ
                             \* that followed it or another such READ call,
                             \* "none" otherwise
    options,                 \* the ReferenceOptions objects, by identity
    controls,                \* the ReferenceAdvanced objects, by identity;
                             \* ref_opts is the identity of the options object
    called,                  \* the last method called on one of them: its
                             \* name, its arguments and what it returned
    kwargs                   \* the interceptor's local kwargs: local, the
                             \* mapping it is bound to; is_caller, whether
                             \* that is the caller's own mapping object;
                             \* caller, the caller's mapping as it stands

vars == <<attn_modules, gn_modules, forward_timestep_embed, context_ref_list, pc,
          ref_all, ref_controlnets, context_controlnets, machine,
          orig_forward_timestep_embed, next_ref, topts, passes,
          attn_reads, gn_reads, outcome, uc_idx_mask, n_out,
          reference_injections, layer_forward, ctx_phase,
          options, controls, called, kwargs>>

Unbound == -1

\* no method of a unit called yet
NotCalled == [name |-> "none"]

\* kwargs as the interceptor is entered: the caller's mapping, whose
\* control is the caller's control chain
CallerKwargs == [local |-> [control |-> "caller"], is_caller |-> TRUE,
                 caller |-> [control |-> "caller"]]

\* kwargs["control"] = None on the mapping the local is bound to
SetControlNone(k) ==
    [k EXCEPT !.local.control = "none",
              !.caller.control = IF k.is_caller THEN "none" ELSE @]

\* ref_pass_kwargs_mut_no_copy: the caller's mapping itself is assigned to
ref_pass_kwargs_mut_no_copy(k, control) ==
    LET orig_kwargs == k
        disabled == IF ~control.ref_with_other_cns THEN SetControlNone(k) ELSE k
    IN  [during |-> disabled,
         after |-> [orig_kwargs EXCEPT
                       !.caller = disabled.caller,
                       !.local = IF orig_kwargs.is_caller THEN disabled.caller ELSE @]]

\* kwargs around the reference pass of one unit: during, what the pass is
\* called with (a copy with control None unless ref_with_other_cns);
\* after, what the local is bound to once kwargs = orig_kwargs has run
ref_pass_kwargs(k, control) ==
    LET orig_kwargs == k
        disabled == IF ~control.ref_with_other_cns
                    THEN SetControlNone([k EXCEPT !.is_caller = FALSE])
                    ELSE k
    IN  [during |-> disabled, after |-> orig_kwargs]

\* every layer patched over its original forward
AllPatched == [attn |-> [b \in Blocks |-> Patched(OrigForward)],
               gn |-> [b \in Blocks |-> Patched(OrigForward)]]

\* bounds of the exploration: no new call once the dispatch function is
\* wrapped MaxDepth times or a context bank holds more than MaxCtxBank entries
MaxDepth == 2
MaxCtxBank == 2

NoOpts == [keys |-> {}, lists |-> NoLists]

attn_controlnets == FilterType(ref_controlnets, LIST_ATTN)
adain_controlnets == FilterType(ref_controlnets, LIST_ADAIN)
context_attn_controlnets == FilterType(context_controlnets, LIST_ATTN)
context_adain_controlnets == FilterType(context_controlnets, LIST_ADAIN)

Init ==
    /\ attn_modules = [b \in Blocks |-> NewAttnHolder]
    /\ gn_modules = [b \in Blocks |-> NewGnHolder]
    /\ forward_timestep_embed = 0
    /\ context_ref_list = <<>>
    /\ pc = "idle"
    /\ ref_all = <<>>
    /\ ref_controlnets = <<>>
    /\ context_controlnets = <<>>
    /\ machine = [attn |-> OFF, adain |-> OFF]
    /\ orig_forward_timestep_embed = Unbound
    /\ next_ref = 1
    /\ topts = NoOpts
    /\ passes = <<>>
    /\ attn_reads = NoReads
    /\ gn_reads = NoReads
    /\ outcome = "none"
    /\ uc_idx_mask = {}
    /\ n_out = <<>>
    /\ reference_injections = Registered
    /\ layer_forward = AllPatched
    /\ ctx_phase = "none"
    /\ kwargs = CallerKwargs
    /\ options = <<>>
    /\ controls = <<>>
    /\ called = NotCalled

\* ------------------------------------------------------------------------
\* Inputs of a call

RefIds == {1, 2}
RefOrder(id) == IF id = 1 THEN 3 ELSE 7
RefFidelity(id) == IF id = 1 THEN Half ELSE One

\* the RefCN units a caller may put at position id of REF_CONTROL_LIST_ALL
RefChoices(id) ==
    LET o == RefOrder(id)
        f == RefFidelity(id)
    IN IF id = 1
       THEN {create_combo(id, o, ATTN, f, One, FALSE, TRUE),
             create_combo(id, o, ADAIN, f, One, FALSE, TRUE),
             create_combo(id, o, ATTN_ADAIN, f, Half, TRUE, TRUE),
             \* every enabled channel at weight 0
             create_combo(id, o, ATTN, f, 0, FALSE, TRUE),
             \* every enabled channel at strength 0
             Unit(id, o, FALSE, ATTN_ADAIN, One, One, 0, 0, f, f, FALSE, TRUE),
             \* the attention channel at weight 0, the other one active
             Unit(id, o, FALSE, ATTN_ADAIN, 0, One, One, One, f, f, FALSE, TRUE),
             \* the enabled channel at weight 0, the disabled one not
             Unit(id, o, FALSE, ATTN, 0, One, One, One, f, f, FALSE, TRUE),
             \* not scheduled at this step
             create_combo(id, o, ATTN, f, One, FALSE, FALSE)}
       ELSE {create_combo(id, o, ATTN, f, One, TRUE, TRUE),
             create_combo(id, o, ATTN_ADAIN, f, One, FALSE, TRUE),
             create_combo(id, o, ADAIN, f, 0, FALSE, TRUE)}

RefInputs ==
    {<<>>} \cup {<<u>> : u \in RefChoices(1)}
           \cup {<<u, v>> : u \in RefChoices(1), v \in RefChoices(2)}

CtxUnit(id, order, type, fidelity) ==
    Unit(id, order, TRUE, type, One, One, One, One, fidelity, fidelity, FALSE, TRUE)

\* the ContextRef lists a caller may install
CtxInputs ==
    {<<CtxUnit(11, -1, ATTN, One)>>,
     <<CtxUnit(11, -1, ATTN_ADAIN, One)>>}

\* ------------------------------------------------------------------------
\* Actions outside the interceptor

\* the unit handle_context_ref_setup builds: ReferenceAdvanced over options
\* of type ATTN, attention fidelity, weight and strength 1.0, adain fidelity
\* and weight 0.0, then order -1; is_context_ref is as __init__ leaves it
cref == [Unit(11, 0, FALSE, ATTN, One, 0, One, One, One, 0, FALSE, TRUE)
            EXCEPT !.order = -1]

\* handle_context_ref_setup
HandleContextRefSetup ==
    /\ UNCHANGED <<ctx_phase, uc_idx_mask, n_out, reference_injections, layer_forward,
                   options, controls, called, kwargs>>
    /\ pc = "idle"
    /\ context_ref_list = <<>>
    /\ machine' = [attn |-> OFF, adain |-> OFF]
    /\ context_ref_list' = <<cref>>
    /\ UNCHANGED <<attn_modules, gn_modules, forward_timestep_embed, pc, ref_all,
                   ref_controlnets, context_controlnets, orig_forward_timestep_embed,
                   next_ref, topts, passes, attn_reads, gn_reads, outcome>>

\* a caller that builds its own ContextRef units (is_context_ref set) and
\* puts them under CONTEXTREF_CONTROL_LIST_ALL
InstallContextRef ==
    /\ UNCHANGED <<ctx_phase, uc_idx_mask, n_out, reference_injections, layer_forward,
                   options, controls, called, kwargs>>
    /\ pc = "idle"
    /\ context_ref_list = <<>>
    /\ \E l \in CtxInputs : context_ref_list' = l
    /\ UNCHANGED <<attn_modules, gn_modules, forward_timestep_embed, pc, ref_all,
                   ref_controlnets, context_controlnets, machine,
                   orig_forward_timestep_embed, next_ref, topts, passes,
                   attn_reads, gn_reads, outcome>>

\* the patching code's assignment of the per-layer thresholds: layer i of n
\* gets i/n (i from 0)
ConfiguredWeight(b) == ((b - 1) * One) \div NumBlocks

ConfigureHolders ==
    /\ UNCHANGED <<ctx_phase, uc_idx_mask, n_out, reference_injections, layer_forward,
                   options, controls, called, kwargs>>
    /\ pc = "idle"
    /\ \A b \in Blocks : attn_modules[b].attn_weight = One
    /\ attn_modules' = [b \in Blocks |->
                           [attn_modules[b] EXCEPT !.attn_weight = ConfiguredWeight(b)]]
    /\ gn_modules' = [b \in Blocks |->
                         [gn_modules[b] EXCEPT !.gn_weight = ConfiguredWeight(b)]]
    /\ UNCHANGED <<forward_timestep_embed, context_ref_list, pc, ref_all,
                   ref_controlnets, context_controlnets, machine,
                   orig_forward_timestep_embed, next_ref, topts, passes,
                   attn_reads, gn_reads, outcome>>

\* ------------------------------------------------------------------------
\* The forward interceptor: forward_inject_UNetModel of
\* factory_forward_inject_UNetModel

Pass(kind, unit, control) == [kind |-> kind, unit |-> unit, control |-> control]

WithinBounds ==
    /\ forward_timestep_embed < MaxDepth
    /\ \A b \in Blocks : /\ Len(attn_modules[b].c_bank) <= MaxCtxBank
                         /\ Len(gn_modules[b].c_var_bank) <= MaxCtxBank

\* the entry of a call: the units that run, and with none running the
\* delegation to the wrapped original forward
EnterCall(refs, ctxs, ms) ==
    \E r \in {Running(refs)} : \E c \in {Running(ctxs)} :
       /\ ref_all' = refs
       /\ ref_controlnets' = r
       /\ context_controlnets' = c
       /\ machine' = ms
       /\ next_ref' = 1
       /\ context_ref_list' = ctxs
       /\ IF Len(r) = 0 /\ Len(c) = 0
          THEN \E fail_at \in FailPoints :
                 \E p \in {ForwardPass(attn_modules, gn_modules, forward_timestep_embed,
                                       NoLists, RealInput, fail_at)} :
                    /\ attn_modules' = p.am
                    /\ gn_modules' = p.gm
                    /\ attn_reads' = p.attn_reads
                    /\ gn_reads' = p.gn_reads
                    /\ passes' = <<Pass("real", RealInput, "caller")>>
                    /\ outcome' = IF p.raised THEN "raised" ELSE "returned"
                    /\ topts' = NoOpts
                    /\ pc' = "done"
                    /\ UNCHANGED <<forward_timestep_embed, orig_forward_timestep_embed>>
          ELSE /\ topts' = [keys |-> {"ref_uncond_idxs", "ref_cond_idxs"},
                            lists |-> NoLists]
               /\ IF Len(FilterType(r, LIST_ADAIN)) > 0 \/ Len(FilterType(c, LIST_ADAIN)) > 0
                  THEN /\ orig_forward_timestep_embed' = forward_timestep_embed
                       /\ forward_timestep_embed' = forward_timestep_embed + 1
                  ELSE /\ orig_forward_timestep_embed' = Unbound
                       /\ UNCHANGED forward_timestep_embed
               /\ passes' = <<>>
               /\ outcome' = "none"
               /\ pc' = IF Len(r) > 0 THEN "ref" ELSE "real"
               /\ attn_reads' = NoReads
               /\ gn_reads' = NoReads
               /\ UNCHANGED <<attn_modules, gn_modules>>

BeginCall ==
    /\ UNCHANGED <<ctx_phase, uc_idx_mask, n_out, reference_injections, layer_forward,
                   options, controls, called>>
    /\ kwargs' = CallerKwargs
    /\ pc = "idle"
    /\ WithinBounds
    /\ \E refs \in RefInputs :
       \E base \in [1..Len(context_ref_list) -> BOOLEAN] :
       \E ms \in [attn : MachineStates, adain : MachineStates] :
         \E ctxs \in {[i \in 1..Len(context_ref_list) |->
                          [context_ref_list[i] EXCEPT !.base_run = base[i]]]} :
            /\ (Len(Running(ctxs)) = 0 => ms = [attn |-> OFF, adain |-> OFF])
            /\ EnterCall(refs, ctxs, ms)

AllKeys == {"ref_uncond_idxs", "ref_cond_idxs", "ref_read_attn_control_list",
            "ref_write_attn_control_list", "ref_read_adain_control_list",
            "ref_write_adain_control_list"}

\* whether the finally block puts the saved dispatch function back
RestoresDispatch == Len(adain_controlnets) > 0

FinallyBlock_mut_skipped(am, gm) ==
    [am |-> am, gm |-> gm, fte |-> forward_timestep_embed]

\* the finally block, on the holders as the try block left them
FinallyBlock(am, gm) ==
    LET c == clean_ref_module_mem(reference_injections, am, gm)
    IN [am |-> c.am, gm |-> c.gm,
        fte |-> IF RestoresDispatch THEN orig_forward_timestep_embed
                ELSE forward_timestep_embed]

AfterRefPass_mut_one_pass(n) == "real"

\* the loop over ref_controlnets: after the pass of unit n, the next unit's
\* pass, and after the last the real pass
AfterRefPass(n) == IF n = Len(ref_controlnets) THEN "real" ELSE "ref"

RefLists_mut_attn_always(control) ==
    Lists(<<>>, <<control>>, <<>>,
          IF is_adain(control.reference_type) THEN <<control>> ELSE <<>>)

\* the lists of the reference pass of one unit
RefLists(control) ==
    Lists(<<>>,
          IF is_attn(control.reference_type) THEN <<control>> ELSE <<>>,
          <<>>,
          IF is_adain(control.reference_type) THEN <<control>> ELSE <<>>)

\* one turn of the loop over ref_controlnets: the reference pass of one
\* unit; when it raises, the finally block ends the call
RefPass ==
    /\ UNCHANGED <<ctx_phase, uc_idx_mask, n_out, reference_injections, layer_forward,
                   options, controls, called>>
    /\ pc = "ref"
    /\ \E fail_at \in FailPoints :
         \E control \in {ref_controlnets[next_ref]} :
         \E l \in {RefLists(control)} :
         \E k \in {ref_pass_kwargs(kwargs, control)} :
         \E p \in {ForwardPass(attn_modules, gn_modules, forward_timestep_embed,
                               l, control.id, fail_at)} :
         \E f \in {FinallyBlock(p.am, p.gm)} :
            /\ topts' = [keys |-> AllKeys, lists |-> l]
            /\ passes' = Append(passes,
                                Pass("ref", control.id, k.during.local.control))
            /\ kwargs' = IF p.raised THEN k.during ELSE k.after
            /\ attn_reads' = p.attn_reads
            /\ gn_reads' = p.gn_reads
            /\ IF p.raised
               THEN /\ attn_modules' = f.am
                    /\ gn_modules' = f.gm
                    /\ forward_timestep_embed' = f.fte
                    /\ outcome' = "raised"
                    /\ pc' = "done"
                    /\ UNCHANGED next_ref
               ELSE /\ attn_modules' = p.am
                    /\ gn_modules' = p.gm
                    /\ UNCHANGED <<outcome, forward_timestep_embed>>
                    /\ next_ref' = next_ref + 1
                    /\ pc' = AfterRefPass(next_ref)
    /\ UNCHANGED <<context_ref_list, ref_all, ref_controlnets,
                   context_controlnets, machine, orig_forward_timestep_embed>>

\* the lists of the real pass
RealLists ==
    LET with_ctx == Len(context_controlnets) > 0
        read_attn == attn_controlnets
            \o (IF with_ctx /\ machine.attn = READ THEN context_attn_controlnets ELSE <<>>)
            \o (IF with_ctx /\ machine.adain = READ THEN context_adain_controlnets ELSE <<>>)
        write_attn ==
               (IF with_ctx /\ machine.attn = WRITE THEN context_attn_controlnets ELSE <<>>)
            \o (IF with_ctx /\ machine.adain = WRITE THEN context_adain_controlnets ELSE <<>>)
    IN Lists(read_attn, write_attn, adain_controlnets, <<>>)

\* whether the context banks are cleared before the real pass
CleansContextRef == Len(context_controlnets) > 0 /\ machine.attn \in {WRITE, OFF}

\* the real pass, with the clearing of the context banks before it and the
\* finally block after it
RealPass ==
    /\ UNCHANGED <<ctx_phase, uc_idx_mask, n_out, reference_injections, layer_forward,
                   options, controls, called, kwargs>>
    /\ pc = "real"
    /\ \E fail_at \in FailPoints :
         \E cleaned \in {IF CleansContextRef
                          THEN clean_contextref_module_mem(reference_injections,
                                                           attn_modules, gn_modules)
                          ELSE [am |-> attn_modules, gm |-> gn_modules]} :
         \E l \in {RealLists} :
         \E p \in {ForwardPass(cleaned.am, cleaned.gm, forward_timestep_embed,
                               l, RealInput, fail_at)} :
         \E f \in {FinallyBlock(p.am, p.gm)} :
            /\ topts' = [keys |-> AllKeys, lists |-> l]
            /\ passes' = Append(passes, Pass("real", RealInput, kwargs.local.control))
            /\ attn_modules' = f.am
            /\ gn_modules' = f.gm
            /\ forward_timestep_embed' = f.fte
            /\ attn_reads' = p.attn_reads
            /\ gn_reads' = p.gn_reads
            /\ outcome' = IF p.raised THEN "raised" ELSE "returned"
            /\ pc' = "done"
    /\ UNCHANGED <<context_ref_list, ref_all, ref_controlnets,
                   context_controlnets, machine, orig_forward_timestep_embed, next_ref>>

\* where the finished call leaves the WRITE, READ, READ, ... sequence of the
\* ContextRef calls
AfterCall ==
    IF Len(context_controlnets) = 0 \/ outcome # "returned" THEN "none"
    ELSE IF machine.attn = WRITE THEN "written"
    ELSE IF machine.attn = READ /\ ctx_phase \in {"written", "read"} THEN "read"
    ELSE "none"

\* the caller takes the result (or the exception); the call's locals are gone
Return ==
    /\ pc = "done"
    /\ pc' = "idle"
    /\ ref_all' = <<>>
    /\ ref_controlnets' = <<>>
    /\ context_controlnets' = <<>>
    /\ machine' = [attn |-> OFF, adain |-> OFF]
    /\ orig_forward_timestep_embed' = Unbound
    /\ next_ref' = 1
    /\ topts' = NoOpts
    /\ passes' = <<>>
    /\ attn_reads' = NoReads
    /\ gn_reads' = NoReads
    /\ outcome' = "none"
    /\ context_ref_list' = [i \in 1..Len(context_ref_list) |->
                               [context_ref_list[i] EXCEPT !.base_run = TRUE]]
    /\ ctx_phase' = AfterCall
    /\ kwargs' = CallerKwargs
    /\ UNCHANGED <<attn_modules, gn_modules, forward_timestep_embed,
                   uc_idx_mask, n_out, reference_injections, layer_forward,
                   options, controls, called>>

Next ==
    \/ HandleContextRefSetup
    \/ InstallContextRef
    \/ ConfigureHolders
    \/ BeginCall
    \/ RefPass
    \/ RealPass
    \/ Return

Spec == Init /\ [][Next]_vars

\* ------------------------------------------------------------------------
\* should_run on its own: one unit out of the whole product of reference
\* types, weights, strengths and base answers, put through the
\* interceptor's filter.

ReferenceTypes == {ATTN, ADAIN, ATTN_ADAIN, STYLE_ALIGN}
\* 0.0, the smallest positive fixed-point number, 1.0
Weights == {0, 1, One}
Strengths == {0, One}

ShouldRunInputs ==
    {Unit(1, 3, FALSE, t, aw, gw, as, gs, Half, Half, FALSE, base) :
        t \in ReferenceTypes, aw \in Weights, gw \in Weights,
        as \in Strengths, gs \in Strengths, base \in BOOLEAN}

InitShouldRun ==
    /\ attn_modules = [b \in Blocks |-> NewAttnHolder]
    /\ gn_modules = [b \in Blocks |-> NewGnHolder]
    /\ forward_timestep_embed = 0
    /\ context_ref_list = <<>>
    /\ pc = "unfiltered"
    /\ ref_all \in {<<u>> : u \in ShouldRunInputs}
    /\ ref_controlnets = <<>>
    /\ context_controlnets = <<>>
    /\ machine = [attn |-> OFF, adain |-> OFF]
    /\ orig_forward_timestep_embed = Unbound
    /\ next_ref = 1
    /\ topts = NoOpts
    /\ passes = <<>>
    /\ attn_reads = NoReads
    /\ gn_reads = NoReads
    /\ outcome = "none"
    /\ uc_idx_mask = {}
    /\ n_out = <<>>
    /\ reference_injections = Registered
    /\ layer_forward = AllPatched
    /\ ctx_phase = "none"
    /\ kwargs = CallerKwargs
    /\ options = <<>>
    /\ controls = <<>>
    /\ called = NotCalled

\* ref_controlnets = [z for z in ref_controlnets if z.should_run()]
FilterRunning ==
    /\ UNCHANGED <<ctx_phase, uc_idx_mask, n_out, reference_injections, layer_forward,
                   options, controls, called, kwargs>>
    /\ pc = "unfiltered"
    /\ ref_controlnets' = Running(ref_all)
    /\ pc' = "filtered"
    /\ UNCHANGED <<attn_modules, gn_modules, forward_timestep_embed, context_ref_list,
                   ref_all, context_controlnets, machine, orig_forward_timestep_embed,
                   next_ref, topts, passes, attn_reads, gn_reads, outcome>>

NextShouldRun == FilterRunning

SpecShouldRun == InitShouldRun /\ [][NextShouldRun]_vars

\* ------------------------------------------------------------------------
\* One layer on its own: the attention injection or the normalization
\* injection of one block called with read and write lists of the caller's
\* choice, on whatever the earlier calls left in the layer's banks.

LayerPool ==
    {create_combo(1, 3, ATTN_ADAIN, Half, Half, FALSE, TRUE),
     create_combo(2, 7, ATTN_ADAIN, One, One, FALSE, TRUE),
     CtxUnit(11, -1, ATTN_ADAIN, 0)}

LayerLists ==
    {<<>>} \cup {<<u>> : u \in LayerPool}
           \cup {l \in {<<u, v>> : u \in LayerPool, v \in LayerPool} : l[1] # l[2]}

\* bound of the exploration: the entries all banks hold together
MaxEntries == 3

TotalEntries ==
    LET RECURSIVE Go(_)
        Go(S) == IF S = {} THEN 0
                 ELSE LET b == CHOOSE x \in S : TRUE
                      IN Len(attn_modules[b].bank) + Len(attn_modules[b].c_bank)
                         + Len(gn_modules[b].var_bank) + Len(gn_modules[b].c_var_bank)
                         + Go(S \ {b})
    IN Go(Blocks)

\* the call's record: passes names the layer (kind, and the block as unit),
\* topts the lists it was given, attn_reads / gn_reads what its READ did
LayerCalled(kind, b) == <<Pass(kind, b, "none")>>

AttnLayerCall ==
    /\ UNCHANGED <<ctx_phase, uc_idx_mask, n_out, reference_injections, layer_forward,
                   options, controls, called, kwargs>>
    /\ pc = "idle"
    /\ \E b \in Blocks : \E wl \in LayerLists : \E rl \in LayerLists :
         \E r \in {forward_inject_BasicTransformerBlock(attn_modules[b], wl, rl,
                                                         RealInput)} :
            /\ TotalEntries + Len(wl) <= MaxEntries
            /\ attn_modules' = [attn_modules EXCEPT ![b] = r.h]
            /\ attn_reads' = [NoReads EXCEPT ![b] = r.read]
            /\ gn_reads' = NoReads
            /\ topts' = [keys |-> {}, lists |-> Lists(rl, wl, <<>>, <<>>)]
            /\ passes' = LayerCalled("attn", b)
            /\ outcome' = IF r.raised THEN "raised" ELSE "returned"
    /\ pc' = "layer"
    /\ UNCHANGED <<gn_modules, forward_timestep_embed, context_ref_list, ref_all,
                   ref_controlnets, context_controlnets, machine,
                   orig_forward_timestep_embed, next_ref>>

GnLayerCall ==
    /\ UNCHANGED <<ctx_phase, uc_idx_mask, n_out, reference_injections, layer_forward,
                   options, controls, called, kwargs>>
    /\ pc = "idle"
    /\ \E b \in Blocks : \E wl \in LayerLists : \E rl \in LayerLists :
         \E r \in {forward_timestep_embed_ref_inject(gn_modules[b], wl, rl, RealInput)} :
            /\ TotalEntries + Len(wl) <= MaxEntries
            /\ gn_modules' = [gn_modules EXCEPT ![b] = r.h]
            /\ gn_reads' = [NoReads EXCEPT ![b] = r.read]
            /\ attn_reads' = NoReads
            /\ topts' = [keys |-> {}, lists |-> Lists(<<>>, <<>>, rl, wl)]
            /\ passes' = LayerCalled("gn", b)
            /\ outcome' = IF r.raised THEN "raised" ELSE "returned"
    /\ pc' = "layer"
    /\ UNCHANGED <<attn_modules, forward_timestep_embed, context_ref_list, ref_all,
                   ref_controlnets, context_controlnets, machine,
                   orig_forward_timestep_embed, next_ref>>

LayerReturn ==
    /\ UNCHANGED <<ctx_phase, uc_idx_mask, n_out, reference_injections, layer_forward,
                   options, controls, called, kwargs>>
    /\ pc = "layer"
    /\ pc' = "idle"
    /\ topts' = NoOpts
    /\ passes' = <<>>
    /\ attn_reads' = NoReads
    /\ gn_reads' = NoReads
    /\ outcome' = "none"
    /\ UNCHANGED <<attn_modules, gn_modules, forward_timestep_embed, context_ref_list,
                   ref_all, ref_controlnets, context_controlnets, machine,
                   orig_forward_timestep_embed, next_ref>>

NextLayer ==
    \/ ConfigureHolders
    \/ AttnLayerCall
    \/ GnLayerCall
    \/ LayerReturn

SpecLayer == Init /\ [][NextLayer]_vars

\* ------------------------------------------------------------------------
\* The blend of the attention READ on its own: the layers hold the entries
\* the reference passes of one or two RefCN units wrote, the real pass
\* reads them with some of the batch slots in REF_UNCOND_IDXS.

\* bound of the exploration: the slots of the batch
BatchSize == 2
Slots == 0..(BatchSize - 1)

Fidelities == {0, Half \div 2, Half, One}

BlendUnit(id, fidelity) == create_combo(id, RefOrder(id), ATTN, fidelity, One, FALSE, TRUE)

BlendInputs ==
    {<<BlendUnit(1, f)>> : f \in Fidelities}
        \cup {<<BlendUnit(1, f), BlendUnit(2, g)>> : f \in Fidelities, g \in Fidelities}

\* the holder after the reference passes of the units
RECURSIVE Written(_, _)
Written(h, units) ==
    IF units = <<>> THEN h
    ELSE Written(AttnWrite(h, <<Head(units)>>, Head(units).id).h, Tail(units))

InitBlend ==
    /\ \E units \in BlendInputs :
          /\ ref_all = units
          /\ ref_controlnets = units
          /\ attn_modules = [b \in Blocks |->
                 Written([NewAttnHolder EXCEPT !.attn_weight = ConfiguredWeight(b)], units)]
    /\ gn_modules = [b \in Blocks |-> NewGnHolder]
    /\ forward_timestep_embed = 0
    /\ context_ref_list = <<>>
    /\ pc = "real"
    /\ context_controlnets = <<>>
    /\ machine = [attn |-> OFF, adain |-> OFF]
    /\ orig_forward_timestep_embed = Unbound
    /\ next_ref = 1
    /\ topts = NoOpts
    /\ passes = <<>>
    /\ attn_reads = NoReads
    /\ gn_reads = NoReads
    /\ outcome = "none"
    /\ uc_idx_mask \in SUBSET Slots
    /\ n_out = <<>>
    /\ reference_injections = Registered
    /\ layer_forward = AllPatched
    /\ ctx_phase = "none"
    /\ kwargs = CallerKwargs
    /\ options = <<>>
    /\ controls = <<>>
    /\ called = NotCalled

\* the attention layer of block 1 in the real pass
AttnBlendRead ==
    /\ pc = "real"
    /\ \E r \in {forward_inject_BasicTransformerBlock(
                      attn_modules[1], <<>>, ref_controlnets, RealInput)} :
          /\ attn_modules' = [attn_modules EXCEPT ![1] = r.h]
          /\ attn_reads' = [NoReads EXCEPT ![1] = r.read]
          /\ n_out' = [s \in Slots |-> AttnBlend(r.read.fid, uc_idx_mask, s)]
    /\ topts' = [keys |-> AllKeys, lists |-> Lists(ref_controlnets, <<>>, <<>>, <<>>)]
    /\ pc' = "blended"
    /\ UNCHANGED <<gn_modules, forward_timestep_embed, context_ref_list, ref_all,
                   ref_controlnets, context_controlnets, machine,
                   orig_forward_timestep_embed, next_ref, passes, gn_reads, outcome,
                   uc_idx_mask, ctx_phase, reference_injections, layer_forward,
                   options, controls, called, kwargs>>

NextBlend == AttnBlendRead

SpecBlend == InitBlend /\ [][NextBlend]_vars

\* ------------------------------------------------------------------------
\* Teardown: the bulk clearing operations, cleanup and restore, on holders
\* as a pass that raised has left them before the finally block runs.  A
\* registered module may have no holder.

\* a holder with one own-origin entry (the reference pass of a RefCN unit)
\* after one context-origin entry (an earlier ContextRef WRITE)
FilledAttnHolder ==
    AttnWrite(AttnWrite([NewAttnHolder EXCEPT !.attn_weight = ConfiguredWeight(1)],
                        <<CtxUnit(11, -1, ATTN_ADAIN, One)>>, RealInput).h,
              <<BlendUnit(1, Half)>>, 1).h

FilledGnHolder ==
    GnWrite(GnWrite([NewGnHolder EXCEPT !.gn_weight = ConfiguredWeight(1)],
                    <<CtxUnit(11, -1, ATTN_ADAIN, One)>>, RealInput).h,
            <<create_combo(1, RefOrder(1), ADAIN, Half, One, FALSE, TRUE)>>, 1).h

\* what a layer's forward may be when its holder is created: the class's
\* own, or one another patch has installed
Callables == {OrigForward, "other_patch"}

TeardownOp(name, b) == <<Pass(name, b, "none")>>

InitTeardown ==
    /\ attn_modules \in [Blocks -> {NoHolder, FilledAttnHolder}]
    /\ gn_modules \in [Blocks -> {NoHolder, FilledGnHolder}]
    /\ \E fa \in Callables : \E fg \in Callables :
          layer_forward = [attn |-> [b \in Blocks |-> Patched(fa)],
                           gn |-> [b \in Blocks |-> Patched(fg)]]
    /\ reference_injections = Registered
    /\ forward_timestep_embed = 0
    /\ context_ref_list = <<>>
    /\ pc = "finally"
    /\ ref_all = <<>>
    /\ ref_controlnets = <<>>
    /\ context_controlnets = <<>>
    /\ machine = [attn |-> OFF, adain |-> OFF]
    /\ orig_forward_timestep_embed = Unbound
    /\ next_ref = 1
    /\ topts = NoOpts
    /\ passes = <<>>
    /\ attn_reads = NoReads
    /\ gn_reads = NoReads
    /\ outcome = "none"
    /\ uc_idx_mask = {}
    /\ n_out = <<>>
    /\ ctx_phase = "none"
    /\ kwargs = CallerKwargs
    /\ options = <<>>
    /\ controls = <<>>
    /\ called = NotCalled

TeardownUnchanged ==
    UNCHANGED <<forward_timestep_embed, context_ref_list, ref_all, ref_controlnets,
                context_controlnets, machine, orig_forward_timestep_embed, next_ref,
                topts, attn_reads, gn_reads, uc_idx_mask, n_out, ctx_phase,
                options, controls, called, kwargs>>

\* the outcome of a bulk operation c
BulkDone(name, c) ==
    /\ attn_modules' = c.am
    /\ gn_modules' = c.gm
    /\ outcome' = IF c.raised THEN "raised" ELSE "returned"
    /\ passes' = TeardownOp(name, 0)
    /\ pc' = "teardown"

\* reference_injections.clean_ref_module_mem(), as the finally block calls it
CleanRefModuleMem ==
    /\ pc \in {"finally", "teardown"}
    /\ \E c \in {clean_ref_module_mem(reference_injections, attn_modules, gn_modules)} :
          BulkDone("clean_ref_module_mem", c)
    /\ UNCHANGED <<reference_injections, layer_forward,
                   options, controls, called, kwargs>>
    /\ TeardownUnchanged

CleanContextrefModuleMem ==
    /\ pc = "teardown"
    /\ \E c \in {clean_contextref_module_mem(reference_injections,
                                               attn_modules, gn_modules)} :
          BulkDone("clean_contextref_module_mem", c)
    /\ UNCHANGED <<reference_injections, layer_forward,
                   options, controls, called, kwargs>>
    /\ TeardownUnchanged

CleanAllModuleMem ==
    /\ pc = "teardown"
    /\ \E c \in {clean_all_module_mem(reference_injections, attn_modules, gn_modules)} :
          BulkDone("clean_all_module_mem", c)
    /\ UNCHANGED <<reference_injections, layer_forward,
                   options, controls, called, kwargs>>
    /\ TeardownUnchanged

\* reference_injections.cleanup()
Cleanup ==
    /\ pc = "teardown"
    /\ \E c \in {cleanup(reference_injections, attn_modules, gn_modules)} :
          /\ BulkDone("cleanup", c)
          /\ reference_injections' = c.reg
    /\ UNCHANGED layer_forward
    /\ TeardownUnchanged

\* module.injection_holder.restore(module) for the attention layer of a block
RestoreAttn ==
    /\ pc = "teardown"
    /\ \E b \in Blocks :
          /\ attn_modules[b] # NoHolder
          /\ layer_forward' = [layer_forward EXCEPT !.attn[b] = restore(@)]
          /\ passes' = TeardownOp("restore_attn", b)
    /\ outcome' = "returned"
    /\ pc' = "teardown"
    /\ UNCHANGED <<attn_modules, gn_modules, reference_injections>>
    /\ TeardownUnchanged

\* the same for the normalization block
RestoreGn ==
    /\ pc = "teardown"
    /\ \E b \in Blocks :
          /\ gn_modules[b] # NoHolder
          /\ layer_forward' = [layer_forward EXCEPT !.gn[b] = restore(@)]
          /\ passes' = TeardownOp("restore_gn", b)
    /\ outcome' = "returned"
    /\ pc' = "teardown"
    /\ UNCHANGED <<attn_modules, gn_modules, reference_injections>>
    /\ TeardownUnchanged

NextTeardown ==
    \/ CleanRefModuleMem
    \/ CleanContextrefModuleMem
    \/ CleanAllModuleMem
    \/ Cleanup
    \/ RestoreAttn
    \/ RestoreGn

SpecTeardown == InitTeardown /\ [][NextTeardown]_vars

\* ------------------------------------------------------------------------
\* The units on their own: ReferenceOptions and ReferenceAdvanced objects
\* and the methods the sampler calls on them outside the interceptor.
\* A tensor is the sequence of its elements in fixed point, <<>> standing
\* for None; a batch of one, so that sigma is one number.

\* fixed-point product and x ** 3.0
Mul(a, b) == (a * b) \div One
Cube(x) == (x * x * x) \div (One * One)

\* the largest r of lo..hi with r * r <= n
RECURSIVE RootBetween(_, _, _)
RootBetween(n, lo, hi) ==
    IF lo = hi THEN lo
    ELSE LET mid == (lo + hi + 1) \div 2
         IN  IF mid * mid <= n THEN RootBetween(n, mid, hi)
             ELSE RootBetween(n, lo, mid - 1)

\* fixed-point x ** 0.5 for 0 <= x <= 1.0
Sqrt(x) == RootBetween(x * One, 0, One)

\* ReferenceOptions.__init__: each fidelity is stored twice
\* (type, af, gf: the reference type and the two fidelities; aw, gw: the
\* two ref_weights; as, gs: the two strengths; others: ref_with_other_cns)
ReferenceOptions(type, af, gf, aw, gw, as, gs, others) ==
    [reference_type |-> type,
     original_attn_style_fidelity |-> af,
     attn_style_fidelity |-> af,
     attn_ref_weight |-> aw,
     attn_strength |-> as,
     original_adain_style_fidelity |-> gf,
     adain_style_fidelity |-> gf,
     adain_ref_weight |-> gw,
     adain_strength |-> gs,
     ref_with_other_cns |-> others]

\* clone_mut_carries_current: the clone built from the current fidelities
clone_mut_carries_current(o) ==
    ReferenceOptions(o.reference_type,
                     o.attn_style_fidelity, o.adain_style_fidelity,
                     o.attn_ref_weight, o.adain_ref_weight,
                     o.attn_strength, o.adain_strength, o.ref_with_other_cns)

\* ReferenceOptions.clone: a new object built from the original fidelities
clone(o) ==
    ReferenceOptions(o.reference_type,
                     o.original_attn_style_fidelity, o.original_adain_style_fidelity,
                     o.attn_ref_weight, o.adain_ref_weight,
                     o.attn_strength, o.adain_strength, o.ref_with_other_cns)

\* ReferenceAdvanced.__init__: order 0, no model bound, flags off, not a
\* ContextRef unit.  Of the base class's fields: no hint, strength 1.0, no
\* previous unit, no timestep range.
ReferenceAdvanced(ref_opts) ==
    [ref_opts |-> ref_opts,
     order |-> 0,
     model_latent_format |-> "None",
     model_sampling_current |-> "None",
     should_apply_attn_effective_strength |-> FALSE,
     should_apply_adain_effective_strength |-> FALSE,
     should_apply_effective_masks |-> FALSE,
     latent_shape |-> 0,
     is_context_ref |-> FALSE,
     cond_hint_original |-> <<>>,
     cond_hint |-> <<>>,
     strength |-> One,
     previous_controlnet |-> "None",
     timestep_range |-> <<>>]

\* the model classes a unit is bound to, by type(model).__name__: the
\* SDXL base model and its refiner
Models == {"SDXL", "SDXLRefiner"}

\* model.latent_format: the two share the SDXL latent format
latent_format(model) == "SDXL"

\* LatentFormat.process_in: the latent times the format's scale factor
\* (0.13025 for SDXL, 0.18215 otherwise)
process_in(format, latent) ==
    [i \in DOMAIN latent |-> Mul(IF format = "SDXL" THEN 130 ELSE 182, latent[i])]

\* pre_run_advanced_mut_compound: the cube taken of the current fidelity
pre_run_advanced_mut_compound(self, o, model) ==
    [self |-> [self EXCEPT !.model_latent_format = latent_format(model),
                           !.model_sampling_current = model],
     ref_opts |->
        IF model = "SDXL"
        THEN [o EXCEPT !.attn_style_fidelity = Cube(o.attn_style_fidelity),
                       !.adain_style_fidelity = Cube(o.adain_style_fidelity)]
        ELSE [o EXCEPT !.attn_style_fidelity = o.original_attn_style_fidelity,
                       !.adain_style_fidelity = o.original_adain_style_fidelity]]

\* ReferenceAdvanced.pre_run_advanced on the unit self whose options object
\* is o: the unit as it is left and the options object as it is left
pre_run_advanced(self, o, model) ==
    [self |-> [self EXCEPT !.model_latent_format = latent_format(model),
                           !.model_sampling_current = model],
     ref_opts |->
        IF model = "SDXL"
        THEN [o EXCEPT !.attn_style_fidelity = Cube(o.original_attn_style_fidelity),
                       !.adain_style_fidelity = Cube(o.original_adain_style_fidelity)]
        ELSE [o EXCEPT !.attn_style_fidelity = o.original_attn_style_fidelity,
                       !.adain_style_fidelity = o.original_adain_style_fidelity]]

\* ref_noise_latents_mut_noise_kept: the noise weighted as the latents are
ref_noise_latents_mut_noise_kept(latents, sigma, noise) ==
    LET Noised(sqrt_alpha_prod, sqrt_one_minus_alpha_prod) ==
            [i \in DOMAIN latents |->
                Mul(sqrt_alpha_prod, latents[i])
                + Mul(sqrt_one_minus_alpha_prod, noise[i])]
        Coefficients(alpha_cumprod) ==
            Noised(Sqrt(alpha_cumprod), Sqrt(alpha_cumprod))
    IN  Coefficients((One * One) \div (Mul(sigma, sigma) + One))

\* ref_noise_latents with the noise it is given or drew
ref_noise_latents(latents, sigma, noise) ==
    LET Noised(sqrt_alpha_prod, sqrt_one_minus_alpha_prod) ==
            [i \in DOMAIN latents |->
                Mul(sqrt_alpha_prod, latents[i])
                + Mul(sqrt_one_minus_alpha_prod, noise[i])]
        Coefficients(alpha_cumprod) ==
            Noised(Sqrt(alpha_cumprod), Sqrt(One - alpha_cumprod))
    IN  Coefficients((One * One) \div (Mul(sigma, sigma) + One))

\* what get_control returned: None, or the output of the previous unit of
\* the chain for the latent and the timestep it was asked with
NoControl == [control |-> "None"]
get_control(previous_controlnet, x_noisy, t) ==
    [control |-> previous_controlnet, x_noisy |-> x_noisy, t |-> t]

\* get_control_advanced_mut_none_outside: nothing returned outside the range
get_control_advanced_mut_none_outside(self, o, x_noisy, t, keyframe_strength, noise) ==
    LET control_prev == IF self.previous_controlnet # "None"
                        THEN get_control(self.previous_controlnet, x_noisy, t)
                        ELSE NoControl
    IN  IF /\ self.timestep_range # <<>>
           /\ (t > self.timestep_range[1] \/ t < self.timestep_range[2])
        THEN [self |-> self, x_noisy |-> x_noisy, return |-> NoControl]
        ELSE [self |-> self, x_noisy |-> x_noisy, return |-> control_prev]

\* ReferenceAdvanced.get_control_advanced on a unit bound to a model, with
\* neither masks nor latent keyframes: the unit as it is left, the latent
\* as it is left and what is returned.  keyframe_strength is the strength
\* of the current timestep keyframe, noise what randn_like draws.
get_control_advanced(self, o, x_noisy, t, keyframe_strength, noise) ==
    LET control_prev == IF self.previous_controlnet # "None"
                        THEN get_control(self.previous_controlnet, x_noisy, t)
                        ELSE NoControl
        Flag(channel_strength) ==
            ~(/\ IsClose(self.strength, One)
              /\ IsClose(keyframe_strength, One)
              /\ IsClose(channel_strength, One))
    IN  IF /\ self.timestep_range # <<>>
           /\ (t > self.timestep_range[1] \/ t < self.timestep_range[2])
        THEN [self |-> self, x_noisy |-> x_noisy, return |-> control_prev]
        ELSE [self |->
                [self EXCEPT
                    !.cond_hint =
                        IF self.cond_hint_original # <<>>
                        THEN ref_noise_latents(
                                 process_in(self.model_latent_format,
                                            self.cond_hint_original), t, noise)
                        ELSE self.cond_hint,
                    !.should_apply_attn_effective_strength = Flag(o.attn_strength),
                    !.should_apply_adain_effective_strength = Flag(o.adain_strength),
                    !.should_apply_effective_masks = FALSE,
                    !.latent_shape = Len(x_noisy)],
              x_noisy |-> x_noisy,
              return |-> control_prev]

\* ReferenceAdvanced.copy: a new object over the same options object, with
\* the source's order and ContextRef flag and, by copy_to of the base
\* class, its hint and its strength
copy_mut_fresh_flag(self) ==
    [ReferenceAdvanced(self.ref_opts) EXCEPT
        !.order = self.order,
        !.cond_hint_original = self.cond_hint_original,
        !.strength = self.strength]

copy(self) ==
    [ReferenceAdvanced(self.ref_opts) EXCEPT
        !.order = self.order,
        !.is_context_ref = self.is_context_ref,
        !.cond_hint_original = self.cond_hint_original,
        !.strength = self.strength]

\* no more units than this
MaxUnits == 2

\* the inputs
Latents == {<<0, 3 * One>>}
Noises == {<<One, 0 - One>>, <<0 - 2 * One, Half>>}
Sigmas == {0, 2 * One}
TimestepRanges == {<<>>, <<One, 0>>}

UnitOptions == ReferenceOptions(ATTN_ADAIN, Half, One, One, One, One, Half, FALSE)

\* a unit as the nodes configure it: a RefCN unit with its hint, its order
\* and its place in the chain, or a ContextRef unit, which has no hint
ConfiguredUnits ==
    {[ReferenceAdvanced(1) EXCEPT
         !.order = 3,
         !.cond_hint_original = <<Half, 0 - One>>,
         !.previous_controlnet = prev,
         !.timestep_range = range] :
        prev \in {"None", "cn_prev"}, range \in TimestepRanges}
    \cup {[ReferenceAdvanced(1) EXCEPT !.order = 0 - 1, !.is_context_ref = TRUE]}

InitUnit ==
    /\ attn_modules = [b \in Blocks |-> NewAttnHolder]
    /\ gn_modules = [b \in Blocks |-> NewGnHolder]
    /\ forward_timestep_embed = 0
    /\ context_ref_list = <<>>
    /\ pc = "idle"
    /\ ref_all = <<>>
    /\ ref_controlnets = <<>>
    /\ context_controlnets = <<>>
    /\ machine = [attn |-> OFF, adain |-> OFF]
    /\ orig_forward_timestep_embed = Unbound
    /\ next_ref = 1
    /\ topts = NoOpts
    /\ passes = <<>>
    /\ attn_reads = NoReads
    /\ gn_reads = NoReads
    /\ outcome = "none"
    /\ uc_idx_mask = {}
    /\ n_out = <<>>
    /\ reference_injections = Registered
    /\ layer_forward = AllPatched
    /\ ctx_phase = "none"
    /\ kwargs = CallerKwargs
    /\ options = <<UnitOptions>>
    /\ controls \in {<<c>> : c \in ConfiguredUnits}
    /\ called = NotCalled

UnitUnchanged ==
    UNCHANGED <<attn_modules, gn_modules, forward_timestep_embed, context_ref_list,
                pc, ref_all, ref_controlnets, context_controlnets, machine,
                orig_forward_timestep_embed, next_ref, topts, passes, attn_reads,
                gn_reads, outcome, uc_idx_mask, n_out, reference_injections,
                layer_forward, ctx_phase, kwargs>>

\* options.clone(): what is returned is a new object, which no unit holds;
\* no more options objects than units
Clone ==
    /\ Len(options) < MaxUnits
    /\ \E i \in DOMAIN options :
          /\ options' = Append(options, clone(options[i]))
          /\ called' = [name |-> "clone", self |-> i, return |-> Len(options) + 1]
    /\ UNCHANGED controls
    /\ UnitUnchanged

\* unit.pre_run_advanced(model, ...)
PreRunAdvanced ==
    /\ \E i \in DOMAIN controls, model \in Models :
          \E r \in {pre_run_advanced(controls[i], options[controls[i].ref_opts],
                                     model)} :
             /\ controls' = [controls EXCEPT ![i] = r.self]
             /\ options' = [options EXCEPT ![controls[i].ref_opts] = r.ref_opts]
             /\ called' = [name |-> "pre_run_advanced", self |-> i, model |-> model]
    /\ UnitUnchanged

\* unit.get_control_advanced(x_noisy, t, ...) during sampling, the unit
\* bound to its model by pre_run_advanced
GetControlAdvanced ==
    /\ \E i \in DOMAIN controls, x_noisy \in Latents, t \in Sigmas,
          keyframe_strength \in {One}, noise \in Noises :
          /\ controls[i].model_sampling_current # "None"
          /\ \E r \in {get_control_advanced(controls[i],
                                            options[controls[i].ref_opts],
                                            x_noisy, t, keyframe_strength, noise)} :
                /\ controls' = [controls EXCEPT ![i] = r.self]
                /\ called' = [name |-> "get_control_advanced", self |-> i,
                              t |-> t, x_noisy_given |-> x_noisy,
                              x_noisy |-> r.x_noisy, return |-> r.return]
    /\ UNCHANGED options
    /\ UnitUnchanged

\* unit.copy()
Copy ==
    /\ Len(controls) < MaxUnits
    /\ \E i \in DOMAIN controls :
          /\ controls' = Append(controls, copy(controls[i]))
          /\ called' = [name |-> "copy", self |-> i, return |-> Len(controls) + 1]
    /\ UNCHANGED options
    /\ UnitUnchanged

\* copy.deepcopy(unit)
DeepCopy ==
    /\ \E i \in DOMAIN controls :
          called' = [name |-> "__deepcopy__", self |-> i, return |-> i]
    /\ UNCHANGED <<options, controls>>
    /\ UnitUnchanged

NextUnit ==
    \/ Clone
    \/ PreRunAdvanced
    \/ GetControlAdvanced
    \/ Copy
    \/ DeepCopy

SpecUnit == InitUnit /\ [][NextUnit]_vars

\* ------------------------------------------------------------------------
\* ref_noise_latents on its own: latents, a sigma and a noise tensor (or
\* None) out of the products below, put through the function.

NoiseLatents == {<<Half, 0 - One>>, <<0, 3 * One>>, <<0 - 1, 1>>, <<One, One>>}
NoiseSigmas == {0, 1, One, 2 * One}
\* what randn_like draws: finite numbers
Randn == {<<One, 0 - One>>, <<0 - 2 * One, Half>>, <<0, 0>>, <<3 * One, 1>>}

InitNoise ==
    /\ attn_modules = [b \in Blocks |-> NewAttnHolder]
    /\ gn_modules = [b \in Blocks |-> NewGnHolder]
    /\ forward_timestep_embed = 0
    /\ context_ref_list = <<>>
    /\ pc = "idle"
    /\ ref_all = <<>>
    /\ ref_controlnets = <<>>
    /\ context_controlnets = <<>>
    /\ machine = [attn |-> OFF, adain |-> OFF]
    /\ orig_forward_timestep_embed = Unbound
    /\ next_ref = 1
    /\ topts = NoOpts
    /\ passes = <<>>
    /\ attn_reads = NoReads
    /\ gn_reads = NoReads
    /\ outcome = "none"
    /\ uc_idx_mask = {}
    /\ n_out = <<>>
    /\ reference_injections = Registered
    /\ layer_forward = AllPatched
    /\ ctx_phase = "none"
    /\ kwargs = CallerKwargs
    /\ options = <<>>
    /\ controls = <<>>
    /\ called \in {[name |-> "arguments", latents |-> l, sigma |-> sigma, noise |-> n] :
                      l \in NoiseLatents, sigma \in NoiseSigmas,
                      n \in Randn \cup {<<>>}}

\* ref_noise_latents(latents, sigma, noise): noise None is drawn here
RefNoiseLatents ==
    /\ called.name = "arguments"
    /\ \E noise \in IF called.noise = <<>> THEN Randn ELSE {called.noise} :
          called' = [name |-> "ref_noise_latents", latents |-> called.latents,
                     sigma |-> called.sigma, noise |-> noise,
                     return |-> ref_noise_latents(called.latents, called.sigma,
                                                  noise)]
    /\ UNCHANGED <<options, controls>>
    /\ UnitUnchanged

NextNoise == RefNoiseLatents

SpecNoise == InitNoise /\ [][NextNoise]_vars

\* ========================================================================
\* Properties

AttnOwnEmpty(h) == h.bank = <<>> /\ h.style_cfgs = <<>> /\ h.cn_idx = <<>>
GnOwnEmpty(h) ==
    h.var_bank = <<>> /\ h.mean_bank = <<>> /\ h.style_cfgs = <<>> /\ h.cn_idx = <<>>

\* C1: after any call of the forward interceptor, whether it returned or a
\* pass raised, and between calls, the own-origin sub-bank of every
\* attention layer and of every normalization layer is empty.
C1_OwnBanksEmptyAfterCall ==
    pc \in {"done", "idle"} =>
        \A b \in Blocks : AttnOwnEmpty(attn_modules[b]) /\ GnOwnEmpty(gn_modules[b])

\* a call whose first reference pass wrote into the normalization bank of
\* block 1 and whose second reference pass raised
C1_Witness ==
    /\ pc = "done"
    /\ outcome = "raised"
    /\ Len(passes) = 2
    /\ passes[2].kind = "ref"
    /\ is_adain(ref_controlnets[1].reference_type)
    /\ ref_controlnets[1].adain_ref_weight > gn_modules[1].gn_weight

\* C2: a call that substituted the dispatch function ends, returning or
\* raising, with the dispatch function it found.
C2_DispatchRestored ==
    (pc = "done" /\ orig_forward_timestep_embed # Unbound) =>
        forward_timestep_embed = orig_forward_timestep_embed

\* C3: with N running RefCN units (and at least one running unit overall)
\* the passes of a call are the reference passes of those units in list
\* order and then the real pass: never more than N + 1, the i-th of the
\* first N for the i-th unit, and all N + 1 once the call has returned.
C3_RefPassesThenRealPass ==
    Len(ref_controlnets) + Len(context_controlnets) > 0 =>
        /\ Len(passes) <= Len(ref_controlnets) + 1
        /\ \A i \in 1..Len(passes) :
              IF i <= Len(ref_controlnets)
              THEN passes[i].kind = "ref" /\ passes[i].unit = ref_controlnets[i].id
              ELSE passes[i].kind = "real" /\ passes[i].unit = RealInput
        /\ (pc = "done" /\ outcome = "returned"
               => Len(passes) = Len(ref_controlnets) + 1)

C3_Witness ==
    /\ pc = "done"
    /\ outcome = "returned"
    /\ Len(ref_controlnets) = 2
    /\ Len(passes) = 3

\* C4: for a running ContextRef unit, in every call with attention machine
\* state READ that follows a WRITE call directly or through READ calls only,
\* what a layer's context-origin sub-bank holds when the call begins (the
\* entries of the WRITE call) is still there after the call and was consumed
\* by the layer's READ in it; and after a call with state WRITE the sub-bank
\* holds no more than that call wrote, the older entries being cleared first.
C4_ContextEntriesPersist ==
    [][(pc = "real" /\ pc' = "done" /\ outcome' = "returned"
            /\ Len(context_attn_controlnets) > 0)
        => \A b \in Blocks :
              /\ (machine.attn = READ /\ ctx_phase \in {"written", "read"}) =>
                    /\ attn_modules'[b].c_bank = attn_modules[b].c_bank
                    /\ attn_modules[b].c_bank # <<>> =>
                          /\ attn_reads'[b].did
                          /\ attn_reads'[b].n_ctx = Len(attn_modules[b].c_bank)
              /\ machine.attn = WRITE =>
                    Len(attn_modules'[b].c_bank) <= Len(topts'.lists.write_attn)]_vars

\* ------------------------------------------------------------------------
\* One layer called on its own (SpecLayer)

\* the READ of the layer that was called, and the read-list it was given
CalledRead ==
    IF passes[1].kind = "attn" THEN attn_reads[passes[1].unit]
    ELSE gn_reads[passes[1].unit]

CalledReadList ==
    IF passes[1].kind = "attn" THEN topts.lists.read_attn ELSE topts.lists.read_adain

OrdersOf(units) == {units[i].order : i \in 1..Len(units)}

\* the READ had a bank before it
ReadAttempted == pc = "layer" /\ (CalledRead.did \/ CalledRead.failed)

\* C5: a READ whose bank entries carry, in any sequence, exactly the
\* distinct orders of the read-list's units (bank [7, 3] with read-list
\* [3, 7]) completes and applies to each entry the unit of the entry's order.
C5_PairsByOrderAnyPosition ==
    (/\ ReadAttempted
     /\ Len(CalledRead.orders) = Len(CalledReadList)
     /\ Cardinality(OrdersOf(CalledReadList)) = Len(CalledReadList)
     /\ {CalledRead.orders[k] : k \in 1..Len(CalledRead.orders)}
            = OrdersOf(CalledReadList))
    => /\ CalledRead.did
       /\ \A k \in 1..Len(CalledRead.orders) :
             \E i \in 1..Len(CalledReadList) :
                /\ CalledReadList[i].id = CalledRead.units[k]
                /\ CalledReadList[i].order = CalledRead.orders[k]

\* some entry of the bank has the order of no unit of the read-list
UnmatchedEntry ==
    \E k \in 1..Len(CalledRead.orders) :
        CalledRead.orders[k] \notin OrdersOf(CalledReadList)

\* C6: a READ with a non-empty read-list in which an entry's order is the
\* order of no unit of the read-list fails with an assertion error and
\* blends nothing.
C6_UnmatchedOrderAsserts ==
    (ReadAttempted /\ Len(CalledReadList) > 0 /\ UnmatchedEntry)
    => CalledRead.failed /\ ~CalledRead.did /\ outcome = "raised"

C6_Witness ==
    /\ ReadAttempted
    /\ UnmatchedEntry
    /\ CalledRead.failed
    /\ Len(CalledRead.orders) = 2

\* ------------------------------------------------------------------------
\* The interceptor (Spec), continued

NoneRuns(refs, ctxs) ==
    /\ \A i \in 1..Len(refs) : ~should_run(refs[i])
    /\ \A i \in 1..Len(ctxs) : ~should_run(ctxs[i])

\* C7: a call in which no RefCN and no ContextRef unit passes should_run
\* calls the original forward exactly once with the caller's arguments and
\* changes nothing else: no bank, not the dispatch function, no list and no
\* cond/uncond key in transformer_options.
C7_PassthroughChangesNothing ==
    [][(pc = "idle" /\ pc' # "idle" /\ NoneRuns(ref_all', context_ref_list'))
        => /\ pc' = "done"
           /\ passes' = <<Pass("real", RealInput, "caller")>>
           /\ attn_modules' = attn_modules
           /\ gn_modules' = gn_modules
           /\ forward_timestep_embed' = forward_timestep_embed
           /\ orig_forward_timestep_embed' = Unbound
           /\ topts' = NoOpts]_vars

\* a passthrough call made with units that do not run, while a context bank
\* holds entries
C7_Witness ==
    /\ pc = "done"
    /\ NoneRuns(ref_all, context_ref_list)
    /\ Len(ref_all) > 0
    /\ Len(context_ref_list) > 0
    /\ Len(passes) = 1
    /\ \E b \in Blocks : attn_modules[b].c_bank # <<>>

ZeroOnEveryEnabledChannel(u) ==
    /\ is_attn(u.reference_type) => (u.attn_ref_weight = 0 \/ u.attn_strength = 0)
    /\ is_adain(u.reference_type) => (u.adain_ref_weight = 0 \/ u.adain_strength = 0)

ListedIds ==
    {u.id : u \in Range(topts.lists.read_attn) \cup Range(topts.lists.write_attn)
                  \cup Range(topts.lists.read_adain) \cup Range(topts.lists.write_adain)}

RefPassIds == {passes[k].unit : k \in {j \in 1..Len(passes) : passes[j].kind = "ref"}}

\* C8: a RefCN unit whose every enabled channel has ref_weight 0 or
\* strength 0 gets no reference pass and is in no read-list or write-list
\* of the call.
C8_ZeroUnitDiscarded ==
    \A i \in 1..Len(ref_all) :
        ZeroOnEveryEnabledChannel(ref_all[i])
            => ref_all[i].id \notin RefPassIds \cup ListedIds

\* a finished call of two units, the first one zero on its channels while
\* scheduled, the second one running
C8_Witness ==
    /\ pc = "done"
    /\ Len(ref_all) = 2
    /\ ZeroOnEveryEnabledChannel(ref_all[1])
    /\ ref_all[1].base_run
    /\ Len(ref_controlnets) = 1
    /\ Len(passes) = 2

\* ------------------------------------------------------------------------
\* should_run on its own (SpecShouldRun)

ExpectedToRun(u) ==
    /\ u.base_run
    /\ \/ /\ u.reference_type \in {ATTN, ATTN_ADAIN}
          /\ u.attn_ref_weight # 0
          /\ u.attn_strength # 0
       \/ /\ u.reference_type \in {ADAIN, ATTN_ADAIN}
          /\ u.adain_ref_weight # 0
          /\ u.adain_strength # 0

\* C9: should_run is false when the base class's should_run is false, and
\* otherwise true exactly when some enabled channel has both its ref_weight
\* and its strength non-zero; a channel the reference type does not enable
\* never makes the unit run.
C9_ShouldRun ==
    pc = "filtered" =>
        ref_controlnets = (IF ExpectedToRun(ref_all[1]) THEN ref_all ELSE <<>>)

\* a scheduled unit of type ATTN with attention weight 0 whose disabled
\* ADAIN channel has weight and strength 1.0: it is filtered out
C9_Witness ==
    /\ pc = "filtered"
    /\ ref_all[1].base_run
    /\ ref_all[1].reference_type = ATTN
    /\ ref_all[1].attn_ref_weight = 0
    /\ ref_all[1].adain_ref_weight = One
    /\ ref_all[1].adain_strength = One
    /\ ref_controlnets = <<>>

\* ------------------------------------------------------------------------
\* The interceptor (Spec), continued

\* exactly one running RefCN unit, of type ATTN with attention weight 1.0
\* and strength 1.0, and no ContextRef unit
OneAttnUnit ==
    /\ Len(ref_controlnets) = 1
    /\ context_ref_list = <<>>
    /\ ref_controlnets[1].reference_type = ATTN
    /\ ref_controlnets[1].attn_ref_weight = One
    /\ ref_controlnets[1].attn_strength = One

Consumed(b) ==
    /\ attn_reads[b].did
    /\ attn_reads[b].orders = <<ref_controlnets[1].order>>
    /\ attn_reads[b].units = <<ref_controlnets[1].id>>
    /\ AttnOwnEmpty(attn_modules[b])

LastRefUnit == ref_controlnets[Len(passes)]

InRefPass == Len(passes) > 0 /\ passes[Len(passes)].kind = "ref"

\* C11: during the reference pass of a RefCN unit both read-lists in
\* transformer_options are empty, the ATTN write-list is [that unit] if the
\* unit is attn-capable and empty otherwise, the ADAIN write-list is [that
\* unit] if it is adain-capable and empty otherwise; no other unit is listed.
C11_RefPassLists ==
    InRefPass =>
        /\ topts.lists.read_attn = <<>>
        /\ topts.lists.read_adain = <<>>
        /\ topts.lists.write_attn =
               (IF LastRefUnit.reference_type \in {ATTN, ATTN_ADAIN}
                THEN <<LastRefUnit>> ELSE <<>>)
        /\ topts.lists.write_adain =
               (IF LastRefUnit.reference_type \in {ADAIN, ATTN_ADAIN}
                THEN <<LastRefUnit>> ELSE <<>>)
        /\ ListedIds \subseteq {LastRefUnit.id}

\* the second reference pass of a call with a running ContextRef unit: the
\* first unit adain-only, the second one attn-only
C11_Witness ==
    /\ InRefPass
    /\ Len(passes) = 2
    /\ Len(context_controlnets) > 0
    /\ ref_controlnets[1].reference_type = ADAIN
    /\ ref_controlnets[2].reference_type = ATTN
    /\ topts.lists.write_adain = <<>>

\* the pass that ran last is the real pass of a call with running units
InRealPass ==
    /\ Len(passes) > 0
    /\ passes[Len(passes)].kind = "real"
    /\ Len(ref_controlnets) + Len(context_controlnets) > 0

\* the running ContextRef units capable of a channel, if the channel's
\* machine state is the given one
ContextIn(state, wanted, capable) ==
    IF Len(context_controlnets) > 0 /\ state = wanted
    THEN FilterType(context_controlnets, capable) ELSE <<>>

\* C12: for the real pass the ATTN read-list holds the running attn-capable
\* RefCN units and the ADAIN read-list the running adain-capable ones; a
\* running ContextRef unit is added per channel by that channel's machine
\* state: to the channel's write-list on WRITE, to its read-list on READ, to
\* none on OFF; no unit is in a list of a channel it is not capable of.
C12_RealPassLists ==
    InRealPass =>
        /\ topts.lists.read_attn =
               FilterType(ref_controlnets, {ATTN, ATTN_ADAIN})
                   \o ContextIn(machine.attn, READ, {ATTN, ATTN_ADAIN})
        /\ topts.lists.write_attn = ContextIn(machine.attn, WRITE, {ATTN, ATTN_ADAIN})
        /\ topts.lists.read_adain =
               FilterType(ref_controlnets, {ADAIN, ATTN_ADAIN})
                   \o ContextIn(machine.adain, READ, {ADAIN, ATTN_ADAIN})
        /\ topts.lists.write_adain = ContextIn(machine.adain, WRITE, {ADAIN, ATTN_ADAIN})

AttnContext(h) == <<h.c_bank, h.c_style_cfgs, h.c_cn_idx>>
GnContext(h) == <<h.c_var_bank, h.c_mean_bank, h.c_style_cfgs, h.c_cn_idx>>

\* C13: in a call with a running ContextRef unit, for each channel on its
\* own: if the channel's machine state is READ, the call leaves the
\* channel's context-origin sub-banks as they were; if it is WRITE or OFF,
\* they are cleared before the real pass, so that afterwards they hold
\* nothing but what the real pass wrote for the channel's write-list.
C13_ContextClearedPerChannel ==
    [][(pc = "real" /\ pc' = "done" /\ Len(context_controlnets) > 0)
        => \A b \in Blocks :
              /\ machine.attn = READ =>
                    AttnContext(attn_modules'[b]) = AttnContext(attn_modules[b])
              /\ machine.attn \in {WRITE, OFF} =>
                    Len(attn_modules'[b].c_bank)
                        <= Len(ContextIn(machine.attn, WRITE, {ATTN, ATTN_ADAIN}))
              /\ machine.adain = READ =>
                    GnContext(gn_modules'[b]) = GnContext(gn_modules[b])
              /\ machine.adain \in {WRITE, OFF} =>
                    Len(gn_modules'[b].c_var_bank)
                        <= Len(ContextIn(machine.adain, WRITE, {ADAIN, ATTN_ADAIN}))]_vars

\* the sequences of one set of an attention bank have one length
AttnAligned(h) ==
    /\ Len(h.style_cfgs) = Len(h.bank)
    /\ Len(h.cn_idx) = Len(h.bank)
    /\ Len(h.c_style_cfgs) = Len(h.c_bank)
    /\ Len(h.c_cn_idx) = Len(h.c_bank)

\* the same for a normalization bank; var and mean at one index come from
\* one input
GnAligned(h) ==
    /\ Len(h.mean_bank) = Len(h.var_bank)
    /\ Len(h.style_cfgs) = Len(h.var_bank)
    /\ Len(h.cn_idx) = Len(h.var_bank)
    /\ Len(h.c_mean_bank) = Len(h.c_var_bank)
    /\ Len(h.c_style_cfgs) = Len(h.c_var_bank)
    /\ Len(h.c_cn_idx) = Len(h.c_var_bank)
    /\ h.mean_bank = h.var_bank
    /\ h.c_mean_bank = h.c_var_bank

\* the own-origin entry at index k was written in the reference pass of one
\* unit: the tensor is that unit's, and so are the fidelity and the order
AttnEntryOfOneUnit(h, k) ==
    \E i \in 1..Len(ref_controlnets) :
        /\ h.bank[k] = ref_controlnets[i].id
        /\ h.style_cfgs[k] = ref_controlnets[i].attn_style_fidelity
        /\ h.cn_idx[k] = ref_controlnets[i].order

GnEntryOfOneUnit(h, k) ==
    \E i \in 1..Len(ref_controlnets) :
        /\ h.var_bank[k] = ref_controlnets[i].id
        /\ h.style_cfgs[k] = ref_controlnets[i].adain_style_fidelity
        /\ h.cn_idx[k] = ref_controlnets[i].order

\* C14: in every reachable state the parallel sequences of one set of a
\* layer's bank have equal length (attention: bank, style_cfgs, cn_idx and
\* the c_ ones; normalization: var_bank, mean_bank, style_cfgs, cn_idx and
\* the c_ ones) and the entries at one index belong to one write event.
C14_ParallelSequencesAligned ==
    \A b \in Blocks :
        /\ AttnAligned(attn_modules[b])
        /\ GnAligned(gn_modules[b])
        /\ \A k \in 1..Len(attn_modules[b].bank) : AttnEntryOfOneUnit(attn_modules[b], k)
        /\ \A k \in 1..Len(gn_modules[b].var_bank) : GnEntryOfOneUnit(gn_modules[b], k)

\* before the real pass, after the reference passes of two units: an
\* attention bank of two own-origin entries beside a context-origin entry,
\* and a normalization bank with an entry
C14_Witness ==
    /\ pc = "real"
    /\ Len(attn_modules[1].bank) = 2
    /\ Len(attn_modules[1].c_bank) > 0
    /\ \E b \in Blocks : Len(gn_modules[b].var_bank) > 0

\* ------------------------------------------------------------------------
\* One layer called on its own (SpecLayer), continued

\* the units of a write-list that qualify at a layer of the given threshold
\* and are (ctx) or are not ContextRef units, in list order
RECURSIVE QualifiedAttn(_, _, _)
QualifiedAttn(wl, threshold, ctx) ==
    IF wl = <<>> THEN <<>>
    ELSE (IF Head(wl).attn_ref_weight > threshold /\ Head(wl).is_context_ref = ctx
          THEN <<Head(wl)>> ELSE <<>>) \o QualifiedAttn(Tail(wl), threshold, ctx)

RECURSIVE QualifiedGn(_, _, _)
QualifiedGn(wl, threshold, ctx) ==
    IF wl = <<>> THEN <<>>
    ELSE (IF Head(wl).adain_ref_weight > threshold /\ Head(wl).is_context_ref = ctx
          THEN <<Head(wl)>> ELSE <<>>) \o QualifiedGn(Tail(wl), threshold, ctx)

\* C15: a layer WRITE (no READ following it in the call) appends one entry
\* for each unit of the write-list that qualifies, with the fidelity and the
\* order of that very unit, to the context-origin sub-bank if the unit is a
\* ContextRef unit and to the own-origin sub-bank otherwise; also when the
\* write-list holds several units of different orders and fidelities.
C15_WriteRecordsQualifyingUnit ==
    [][(pc = "idle" /\ pc' = "layer"
            /\ topts'.lists.read_attn = <<>> /\ topts'.lists.read_adain = <<>>)
        => \A b \in Blocks :
              LET h == attn_modules[b]
                  g == gn_modules[b]
                  own == QualifiedAttn(topts'.lists.write_attn, h.attn_weight, FALSE)
                  ctx == QualifiedAttn(topts'.lists.write_attn, h.attn_weight, TRUE)
                  gown == QualifiedGn(topts'.lists.write_adain, g.gn_weight, FALSE)
                  gctx == QualifiedGn(topts'.lists.write_adain, g.gn_weight, TRUE)
              IN /\ passes'[1] = Pass("attn", b, "none") =>
                     /\ attn_modules'[b].cn_idx =
                            h.cn_idx \o [k \in 1..Len(own) |-> own[k].order]
                     /\ attn_modules'[b].style_cfgs =
                            h.style_cfgs \o [k \in 1..Len(own) |-> own[k].attn_style_fidelity]
                     /\ attn_modules'[b].c_cn_idx =
                            h.c_cn_idx \o [k \in 1..Len(ctx) |-> ctx[k].order]
                     /\ attn_modules'[b].c_style_cfgs =
                            h.c_style_cfgs \o [k \in 1..Len(ctx) |-> ctx[k].attn_style_fidelity]
                 /\ passes'[1] = Pass("gn", b, "none") =>
                     /\ gn_modules'[b].cn_idx =
                            g.cn_idx \o [k \in 1..Len(gown) |-> gown[k].order]
                     /\ gn_modules'[b].style_cfgs =
                            g.style_cfgs \o [k \in 1..Len(gown) |-> gown[k].adain_style_fidelity]
                     /\ gn_modules'[b].c_cn_idx =
                            g.c_cn_idx \o [k \in 1..Len(gctx) |-> gctx[k].order]
                     /\ gn_modules'[b].c_style_cfgs =
                            g.c_style_cfgs \o [k \in 1..Len(gctx) |-> gctx[k].adain_style_fidelity]]_vars

\* ------------------------------------------------------------------------
\* The blend of the attention READ (SpecBlend)

Blended == pc = "blended" /\ attn_reads[1].did

\* C16 as stated: in an attention READ, when the bank's average fidelity is
\* 1.0 no batch slot of the output depends on the bank entries, and when it
\* is 0.0 every batch slot is the extended-context result alone.
C16_FidelityBoundaries ==
    Blended =>
        /\ attn_reads[1].fid = One => \A s \in Slots : n_out[s].ext = 0
        /\ attn_reads[1].fid = 0 => \A s \in Slots : n_out[s] = PureExt

\* C16 amended: when the bank's average fidelity is 1.0, the slots listed
\* in REF_UNCOND_IDXS are plain self-attention, independent of the bank
\* entries, and every other slot is the extended-context result; when it is
\* 0.0 every slot is the extended-context result alone.
C16_FidelityBoundariesUncondSlots ==
    Blended =>
        /\ attn_reads[1].fid = One =>
              \A s \in Slots :
                  n_out[s] = (IF s \in uc_idx_mask THEN PureSelf ELSE PureExt)
        /\ attn_reads[1].fid = 0 => \A s \in Slots : n_out[s] = PureExt

\* a READ of two entries of fidelity 1.0 with one slot of two in
\* REF_UNCOND_IDXS
C16_Witness ==
    /\ Blended
    /\ Len(attn_reads[1].orders) = 2
    /\ attn_reads[1].fid = One
    /\ uc_idx_mask = {1}
    /\ n_out[0] = PureExt
    /\ n_out[1] = PureSelf

\* ------------------------------------------------------------------------
\* The interceptor (Spec), continued

\* C17: when a reference pass or the real pass raises, that pass is the
\* last forward pass of the call (a failing reference pass is not run again,
\* the later reference passes and the real pass do not run), the cleanup
\* phase has run (no own-origin bank entry is left) and the call ends with
\* the exception going to the caller.
C17_RaiseEndsCall ==
    [][/\ (pc \in {"ref", "real"} /\ outcome' = "raised") =>
             /\ pc' = "done"
             /\ Len(passes') = Len(passes) + 1
             /\ passes'[Len(passes')].kind = pc
             /\ \A k \in 1..Len(passes) : passes'[k] = passes[k]
             /\ \A b \in Blocks : /\ AttnOwnEmpty(attn_modules'[b])
                                   /\ GnOwnEmpty(gn_modules'[b])
       /\ (pc = "done" /\ outcome = "raised") =>
             /\ pc' = "idle"
             /\ passes' = <<>>
             /\ attn_modules' = attn_modules
             /\ gn_modules' = gn_modules]_vars

\* the first of two reference passes raised after its unit wrote into an
\* attention bank: one pass in all
C17_Witness ==
    /\ pc = "done"
    /\ outcome = "raised"
    /\ Len(ref_controlnets) = 2
    /\ Len(passes) = 1
    /\ passes[1].kind = "ref"
    /\ is_attn(ref_controlnets[1].reference_type)
    /\ ref_controlnets[1].attn_ref_weight > attn_modules[1].attn_weight

\* ------------------------------------------------------------------------
\* Teardown (SpecTeardown)

\* the operation of the step that led here
LastOp == IF pc = "teardown" THEN passes[1].kind ELSE "none"

AttnCtxEmpty(h) == h.c_bank = <<>> /\ h.c_style_cfgs = <<>> /\ h.c_cn_idx = <<>>
GnCtxEmpty(h) ==
    /\ h.c_var_bank = <<>> /\ h.c_mean_bank = <<>>
    /\ h.c_style_cfgs = <<>> /\ h.c_cn_idx = <<>>

\* what an operation clears is cleared in every registered holder
ClearedBy(op) ==
    /\ \A i \in 1..Len(reference_injections.attn_modules) :
           LET h == attn_modules[reference_injections.attn_modules[i]]
           IN h # NoHolder =>
                 /\ op \in {"clean_ref_module_mem", "clean_all_module_mem"}
                        => AttnOwnEmpty(h)
                 /\ op \in {"clean_contextref_module_mem", "clean_all_module_mem"}
                        => AttnCtxEmpty(h)
    /\ \A i \in 1..Len(reference_injections.gn_modules) :
           LET h == gn_modules[reference_injections.gn_modules[i]]
           IN h # NoHolder =>
                 /\ op \in {"clean_ref_module_mem", "clean_all_module_mem"}
                        => GnOwnEmpty(h)
                 /\ op \in {"clean_contextref_module_mem", "clean_all_module_mem"}
                        => GnCtxEmpty(h)

\* C18: clean_ref_module_mem, clean_contextref_module_mem and
\* clean_all_module_mem never raise, and whatever registered module makes
\* its own clearing raise (it has no holder), every other registered
\* attention and normalization holder is cleared.
C18_BulkClearingSuppresses ==
    LastOp \in {"clean_ref_module_mem", "clean_contextref_module_mem",
                "clean_all_module_mem"}
        => outcome = "returned" /\ ClearedBy(LastOp)

\* clean_all_module_mem with the first attention module and the first
\* normalization module without a holder, the second ones with holders
C18_Witness ==
    /\ LastOp = "clean_all_module_mem"
    /\ Len(reference_injections.attn_modules) = NumBlocks
    /\ attn_modules[1] = NoHolder
    /\ gn_modules[1] = NoHolder
    /\ attn_modules[NumBlocks] # NoHolder
    /\ gn_modules[NumBlocks] # NoHolder

\* C19: after ReferenceInjections.cleanup both sub-banks of every holder
\* that was registered are empty, the registry's two module lists are empty
\* and its stored original forward is None; cleanup called again on that
\* state changes nothing.
C19_CleanupLeavesNothing ==
    [][(pc' = "teardown" /\ passes'[1].kind = "cleanup") =>
          /\ \A i \in 1..Len(reference_injections.attn_modules) :
                 LET h == attn_modules'[reference_injections.attn_modules[i]]
                 IN h # NoHolder => AttnOwnEmpty(h) /\ AttnCtxEmpty(h)
          /\ \A i \in 1..Len(reference_injections.gn_modules) :
                 LET h == gn_modules'[reference_injections.gn_modules[i]]
                 IN h # NoHolder => GnOwnEmpty(h) /\ GnCtxEmpty(h)
          /\ reference_injections'.attn_modules = <<>>
          /\ reference_injections'.gn_modules = <<>>
          /\ reference_injections'.diffusion_model_orig_forward = NoForward
          /\ outcome' = "returned"
          /\ cleanup(reference_injections', attn_modules', gn_modules')
                = [reg |-> reference_injections', am |-> attn_modules',
                   gm |-> gn_modules', raised |-> FALSE]]_vars

\* after cleanup of a registry whose holders all existed
C19_Witness ==
    /\ LastOp = "cleanup"
    /\ \A b \in Blocks : attn_modules[b] # NoHolder /\ gn_modules[b] # NoHolder
    /\ \A b \in Blocks : AttnCtxEmpty(attn_modules[b]) /\ GnCtxEmpty(gn_modules[b])
    /\ reference_injections.diffusion_model_orig_forward = NoForward

\* the layer an operation was applied to
RestoredLayer(kind) == layer_forward[kind][passes[1].unit]

\* C20: restore of an attention holder or of a normalization holder puts
\* back on the layer the callable the holder captured when it was created,
\* and after it the holder's bank (own-origin and context-origin) is empty.
C20_RestoreReinstallsAndClears ==
    /\ LastOp = "restore_attn" =>
          /\ RestoredLayer("attn").forward = RestoredLayer("attn").original_forward
          /\ AttnOwnEmpty(attn_modules[passes[1].unit])
          /\ AttnCtxEmpty(attn_modules[passes[1].unit])
    /\ LastOp = "restore_gn" =>
          /\ RestoredLayer("gn").forward = RestoredLayer("gn").original_forward
          /\ GnOwnEmpty(gn_modules[passes[1].unit])
          /\ GnCtxEmpty(gn_modules[passes[1].unit])

\* the options object of unit i
OptionsOf(i) == options[controls[i].ref_opts]

\* the fidelity the claim expects after a run for the named model class
AdjustedFidelity(original, model) == IF model = "SDXL" THEN Cube(original) ELSE original

\* the units that share the options object of unit i
SharingOptions(i) == {j \in DOMAIN controls : controls[j].ref_opts = controls[i].ref_opts}

\* C21: no operation changes the original attn/adain fidelity of a
\* ReferenceOptions object, and the object clone() returns carries the
\* source's originals; whenever pre_run_advanced has just run, whatever ran
\* before it on the same options object, each current fidelity is the cube
\* of the original if the model class is SDXL and the original otherwise;
\* no other operation changes a current fidelity.
C21_FidelityFromOriginal ==
    /\ [](called.name = "pre_run_advanced" =>
            /\ OptionsOf(called.self).attn_style_fidelity =
                  AdjustedFidelity(OptionsOf(called.self).original_attn_style_fidelity,
                                   called.model)
            /\ OptionsOf(called.self).adain_style_fidelity =
                  AdjustedFidelity(OptionsOf(called.self).original_adain_style_fidelity,
                                   called.model))
    /\ [](called.name = "clone" =>
            /\ options[called.return].original_attn_style_fidelity =
                  options[called.self].original_attn_style_fidelity
            /\ options[called.return].original_adain_style_fidelity =
                  options[called.self].original_adain_style_fidelity)
    /\ [][/\ \A o \in DOMAIN options :
               /\ o \in DOMAIN options'
               /\ options'[o].original_attn_style_fidelity =
                     options[o].original_attn_style_fidelity
               /\ options'[o].original_adain_style_fidelity =
                     options[o].original_adain_style_fidelity
          /\ called'.name # "pre_run_advanced" =>
                \A o \in DOMAIN options : options'[o] = options[o]]_vars

\* pre_run_advanced has run at least twice for SDXL on one options object,
\* through two units that share it, and the fidelity 0.5 stands at 0.125
C21_Witness ==
    /\ called.name = "pre_run_advanced"
    /\ called.model = "SDXL"
    /\ \E j \in SharingOptions(called.self) \ {called.self} :
          controls[j].model_sampling_current = "SDXL"
    /\ OptionsOf(called.self).original_attn_style_fidelity = Half
    /\ OptionsOf(called.self).attn_style_fidelity = 125

\* C22: a generic deep copy of a unit returns the unit itself and creates
\* no unit; copy() returns a unit that did not exist before, distinct from
\* its source, with the source's order and the source's is_context_ref.
C22_DeepCopySameCopyNew ==
    /\ [](called.name = "__deepcopy__" => called.return = called.self)
    /\ [](called.name = "copy" =>
            /\ called.return # called.self
            /\ called.return \in DOMAIN controls
            /\ controls[called.return].order = controls[called.self].order
            /\ controls[called.return].is_context_ref =
                  controls[called.self].is_context_ref)
    /\ [][/\ called'.name = "__deepcopy__" => controls' = controls
          /\ called'.name = "copy" =>
                /\ called'.return \notin DOMAIN controls
                /\ DOMAIN controls' = DOMAIN controls \cup {called'.return}]_vars

\* a ContextRef unit of order -1 was copied, and the copy deep-copied
C22_Witness ==
    /\ called.name = "__deepcopy__"
    /\ called.self = 2
    /\ Len(controls) = 2
    /\ controls[1].is_context_ref
    /\ controls[2].is_context_ref
    /\ controls[2].order = 0 - 1

\* C23: whenever get_control_advanced has returned, inside or outside the
\* unit's timestep range, what it returned is the output of the previous
\* unit of the chain for the same latent and timestep, or None if the unit
\* has no previous unit, and the latent it was given is as it was given.
C23_ReturnsPreviousControl ==
    called.name = "get_control_advanced" =>
        /\ called.return =
              IF controls[called.self].previous_controlnet = "None"
              THEN [control |-> "None"]
              ELSE [control |-> controls[called.self].previous_controlnet,
                    x_noisy |-> called.x_noisy_given, t |-> called.t]
        /\ called.x_noisy = called.x_noisy_given

\* a unit with a previous unit and a timestep range was called outside
\* that range and returned the previous unit's output
C23_Witness ==
    /\ called.name = "get_control_advanced"
    /\ controls[called.self].timestep_range # <<>>
    /\ called.t > controls[called.self].timestep_range[1]
    /\ controls[called.self].previous_controlnet = "cn_prev"
    /\ called.return.control = "cn_prev"
    /\ controls[called.self].cond_hint = <<>>

\* C24: whenever ref_noise_latents has returned for sigma = 0, whether the
\* noise was given or drawn, what it returned is the latents it was given,
\* element for element.
C24_SigmaZeroReturnsLatents ==
    (called.name = "ref_noise_latents" /\ called.sigma = 0) =>
        called.return = called.latents

\* at sigma = 0, latents with negative and non-zero elements came back
\* unchanged under a noise tensor with non-zero elements
C24_Witness ==
    /\ called.name = "ref_noise_latents"
    /\ called.sigma = 0
    /\ called.latents = <<Half, 0 - One>>
    /\ called.noise = <<0 - 2 * One, Half>>
    /\ called.return = <<Half, 0 - One>>

\* C25: in a layer call whose READ consumed bank entries, the layer's
\* own-origin sub-bank is empty when the call returns and its
\* context-origin sub-bank is what the call's WRITE, which runs before the
\* READ, left (what it was before the call if the write-list was empty).
C25_ReadClearsOwnKeepsContext ==
    [][(pc = "idle" /\ pc' = "layer")
        => \A b \in Blocks :
              /\ (passes'[1] = Pass("attn", b, "none") /\ attn_reads'[b].did) =>
                    /\ AttnOwnEmpty(attn_modules'[b])
                    /\ AttnContext(attn_modules'[b]) =
                          AttnContext(AttnWrite(attn_modules[b],
                                                topts'.lists.write_attn, RealInput).h)
                    /\ topts'.lists.write_attn = <<>> =>
                          AttnContext(attn_modules'[b]) = AttnContext(attn_modules[b])
              /\ (passes'[1] = Pass("gn", b, "none") /\ gn_reads'[b].did) =>
                    /\ GnOwnEmpty(gn_modules'[b])
                    /\ GnContext(gn_modules'[b]) =
                          GnContext(GnWrite(gn_modules[b],
                                            topts'.lists.write_adain, RealInput).h)
                    /\ topts'.lists.write_adain = <<>> =>
                          GnContext(gn_modules'[b]) = GnContext(gn_modules[b])]_vars

\* a normalization READ consumed an own-origin and a context-origin entry,
\* and the context-origin entry is still in the bank
C25_Witness ==
    /\ pc = "layer"
    /\ \E b \in Blocks :
          /\ passes[1] = Pass("gn", b, "none")
          /\ gn_reads[b].did
          /\ gn_reads[b].n_ctx > 0
          /\ Len(gn_reads[b].orders) > gn_reads[b].n_ctx
          /\ Len(gn_modules[b].c_var_bank) = gn_reads[b].n_ctx
          /\ GnOwnEmpty(gn_modules[b])

\* C26: in a layer call whose WRITE appended to the layer's context-origin
\* sub-bank, the READ of the call is given the own-origin entries only: the
\* orders it pairs are those of the own-origin sub-bank as the WRITE left
\* it, none of the entries is context-origin, the fidelity is the average
\* (attention) or the last (normalization) of the own-origin fidelities,
\* and with no own-origin entry there is no READ at all.
C26_NoContextReadAfterContextWrite ==
    [][(pc = "idle" /\ pc' = "layer")
        => \A b \in Blocks :
              /\ (/\ passes'[1] = Pass("attn", b, "none")
                  /\ Len(attn_modules'[b].c_bank) > Len(attn_modules[b].c_bank)) =>
                    LET w == AttnWrite(attn_modules[b], topts'.lists.write_attn,
                                       RealInput).h
                    IN  /\ w.bank = <<>> =>
                              ~attn_reads'[b].did /\ ~attn_reads'[b].failed
                        /\ attn_reads'[b].did =>
                              /\ attn_reads'[b].orders = w.cn_idx
                              /\ attn_reads'[b].n_ctx = 0
                              /\ attn_reads'[b].fid =
                                    SeqSum(w.style_cfgs) \div Len(w.style_cfgs)
              /\ (/\ passes'[1] = Pass("gn", b, "none")
                  /\ Len(gn_modules'[b].c_var_bank) > Len(gn_modules[b].c_var_bank)) =>
                    LET w == GnWrite(gn_modules[b], topts'.lists.write_adain,
                                     RealInput).h
                    IN  /\ w.var_bank = <<>> =>
                              ~gn_reads'[b].did /\ ~gn_reads'[b].failed
                        /\ gn_reads'[b].did =>
                              /\ gn_reads'[b].orders = w.cn_idx
                              /\ gn_reads'[b].n_ctx = 0
                              /\ gn_reads'[b].fid = w.style_cfgs[Len(w.style_cfgs)]]_vars

\* an attention call with a ContextRef unit in its write-list whose READ
\* consumed an own-origin entry while the context-origin sub-bank held the
\* entry just written and an older one
C26_Witness ==
    /\ pc = "layer"
    /\ \E b \in Blocks :
          /\ passes[1] = Pass("attn", b, "none")
          /\ \E k \in DOMAIN topts.lists.write_attn :
                topts.lists.write_attn[k].is_context_ref
          /\ attn_reads[b].did
          /\ attn_reads[b].n_ctx = 0
          /\ Len(attn_reads[b].orders) > 0
          /\ Len(attn_modules[b].c_bank) >= 2

\* C27: a layer call with an empty write-list and either an empty read-list
\* or an empty bank (own-origin and context-origin together) returns
\* without a READ, that is with the layer's ordinary output (attention:
\* plain self-attention; normalization: the block's x), and leaves every
\* sequence of the layer's bank as it was.
C27_NothingToDoIsUnpatched ==
    [][(pc = "idle" /\ pc' = "layer")
        => \A b \in Blocks :
              /\ (/\ passes'[1] = Pass("attn", b, "none")
                  /\ topts'.lists.write_attn = <<>>
                  /\ \/ topts'.lists.read_attn = <<>>
                     \/ attn_modules[b].bank \o attn_modules[b].c_bank = <<>>) =>
                    /\ attn_reads'[b] = NoRead
                    /\ outcome' = "returned"
                    /\ attn_modules'[b] = attn_modules[b]
              /\ (/\ passes'[1] = Pass("gn", b, "none")
                  /\ topts'.lists.write_adain = <<>>
                  /\ \/ topts'.lists.read_adain = <<>>
                     \/ gn_modules[b].var_bank \o gn_modules[b].c_var_bank = <<>>) =>
                    /\ gn_reads'[b] = NoRead
                    /\ outcome' = "returned"
                    /\ gn_modules'[b] = gn_modules[b]]_vars

\* a normalization call with neither list, on a bank that holds own-origin
\* and context-origin entries, returned without a READ and the entries are
\* still there
C27_Witness ==
    /\ pc = "layer"
    /\ topts.lists = NoLists
    /\ outcome = "returned"
    /\ \E b \in Blocks :
          /\ passes[1] = Pass("gn", b, "none")
          /\ gn_reads[b] = NoRead
          /\ gn_modules[b].var_bank # <<>>
          /\ gn_modules[b].c_var_bank # <<>>

\* C28: a layer WRITE (no READ following it in the call) makes each of the
\* layer's sub-banks longer by the number of units of the write-list, of
\* that origin, whose channel ref_weight is strictly greater than the
\* holder's threshold, each appended entry being the layer's input; a unit
\* whose weight equals the threshold adds nothing, and a holder at its
\* initial threshold 1.0 is left as it was by units of ref_weight <= 1.0.
C28_WriteAppendsPerQualifyingUnit ==
    [][(pc = "idle" /\ pc' = "layer"
            /\ topts'.lists.read_attn = <<>> /\ topts'.lists.read_adain = <<>>)
        => \A b \in Blocks :
              LET h == attn_modules[b]
                  g == gn_modules[b]
                  wl == topts'.lists.write_attn
                  gwl == topts'.lists.write_adain
                  Grown(before, after, count) ==
                      after = before \o [k \in 1..count |-> RealInput]
                  Longer(before, after, count) == Len(after) = Len(before) + count
                  own == Len(QualifiedAttn(wl, h.attn_weight, FALSE))
                  ctx == Len(QualifiedAttn(wl, h.attn_weight, TRUE))
                  gown == Len(QualifiedGn(gwl, g.gn_weight, FALSE))
                  gctx == Len(QualifiedGn(gwl, g.gn_weight, TRUE))
              IN /\ passes'[1] = Pass("attn", b, "none") =>
                     /\ Grown(h.bank, attn_modules'[b].bank, own)
                     /\ Longer(h.style_cfgs, attn_modules'[b].style_cfgs, own)
                     /\ Longer(h.cn_idx, attn_modules'[b].cn_idx, own)
                     /\ Grown(h.c_bank, attn_modules'[b].c_bank, ctx)
                     /\ Longer(h.c_style_cfgs, attn_modules'[b].c_style_cfgs, ctx)
                     /\ Longer(h.c_cn_idx, attn_modules'[b].c_cn_idx, ctx)
                     /\ (/\ h.attn_weight = One
                         /\ \A k \in DOMAIN wl : wl[k].attn_ref_weight <= One) =>
                            attn_modules'[b] = h
                     /\ (\A k \in DOMAIN wl : wl[k].attn_ref_weight = h.attn_weight) =>
                            attn_modules'[b] = h
                 /\ passes'[1] = Pass("gn", b, "none") =>
                     /\ Grown(g.var_bank, gn_modules'[b].var_bank, gown)
                     /\ Grown(g.mean_bank, gn_modules'[b].mean_bank, gown)
                     /\ Longer(g.style_cfgs, gn_modules'[b].style_cfgs, gown)
                     /\ Longer(g.cn_idx, gn_modules'[b].cn_idx, gown)
                     /\ Grown(g.c_var_bank, gn_modules'[b].c_var_bank, gctx)
                     /\ Grown(g.c_mean_bank, gn_modules'[b].c_mean_bank, gctx)
                     /\ Longer(g.c_style_cfgs, gn_modules'[b].c_style_cfgs, gctx)
                     /\ Longer(g.c_cn_idx, gn_modules'[b].c_cn_idx, gctx)
                     /\ (/\ g.gn_weight = One
                         /\ \A k \in DOMAIN gwl : gwl[k].adain_ref_weight <= One) =>
                            gn_modules'[b] = g
                     /\ (\A k \in DOMAIN gwl : gwl[k].adain_ref_weight = g.gn_weight) =>
                            gn_modules'[b] = g]_vars

\* a normalization WRITE on a layer of threshold 0.5 with a unit of weight
\* 0.5 and a unit of weight 1.0 in its write-list appended one entry only
C28_Witness ==
    /\ pc = "layer"
    /\ topts.lists.read_adain = <<>>
    /\ \E b \in Blocks :
          /\ passes[1] = Pass("gn", b, "none")
          /\ gn_modules[b].gn_weight = Half
          /\ Len(topts.lists.write_adain) = 2
          /\ topts.lists.write_adain[1].adain_ref_weight = Half
          /\ topts.lists.write_adain[2].adain_ref_weight = One
          /\ ~topts.lists.write_adain[2].is_context_ref
          /\ Len(gn_modules[b].var_bank) = 1
          /\ gn_modules[b].cn_idx = <<topts.lists.write_adain[2].order>>

\* the call's one running ContextRef unit is the unit that
\* handle_context_ref_setup built
SetupUnitRuns ==
    /\ Len(context_controlnets) = 1
    /\ [context_controlnets[1] EXCEPT !.base_run = TRUE] = cref

\* C29: handle_context_ref_setup leaves both ContextRef machine states OFF
\* and registers its unit as the ContextRef list; when a call in which that
\* unit runs with the attention state WRITE has returned, every attention
\* layer whose threshold is below the unit's weight holds an entry in its
\* context-origin sub-bank, the own-bank clear at the end of the call
\* having left it there.
C29_SetupUnitWritesContext ==
    /\ [][(context_ref_list = <<>> /\ context_ref_list' = <<cref>>) =>
             machine' = [attn |-> OFF, adain |-> OFF]]_vars
    /\ []((/\ pc = "done"
           /\ outcome = "returned"
           /\ SetupUnitRuns
           /\ machine.attn = WRITE) =>
             \A b \in Blocks :
                 cref.attn_ref_weight > attn_modules[b].attn_weight =>
                     Len(attn_modules[b].c_bank) > 0)

\* C30: the reference pass of a unit runs with control None if the unit's
\* ref_with_other_cns is false and with the caller's control chain if it is
\* true, whatever the units before it had; the real pass runs with the
\* caller's control chain; the caller's kwargs mapping holds the caller's
\* control chain throughout.
C30_ControlPerPass ==
    /\ kwargs.caller = [control |-> "caller"]
    /\ \A i \in DOMAIN passes :
          /\ passes[i].kind = "ref" =>
                /\ passes[i].unit = ref_controlnets[i].id
                /\ passes[i].control =
                      IF ref_controlnets[i].ref_with_other_cns THEN "caller" ELSE "none"
          /\ passes[i].kind = "real" => passes[i].control = "caller"

\* a call has returned whose first reference pass ran with control None,
\* its second with the caller's chain and its real pass with it as well
C30_Witness ==
    /\ pc = "done"
    /\ outcome = "returned"
    /\ Len(passes) = 3
    /\ passes[1].kind = "ref" /\ passes[1].control = "none"
    /\ passes[2].kind = "ref" /\ passes[2].control = "caller"
    /\ passes[3].kind = "real" /\ passes[3].control = "caller"

\* ------------------------------------------------------------------------
\* The cond and uncond indices of a call: the head of the try block of
\* forward_inject_UNetModel.  Python indices are kept 0-based; position p
\* of a sequence holds what Python has at index p - 1.

MaxConds == 3
MaxPerBatch == 4

\* [cond_type] * per_batch
Repeat(cond_type, per_batch) == [p \in 1..per_batch |-> cond_type]

\* indiv_conds after the loop over cond_or_uncond
indiv_conds(cond_or_uncond, per_batch) ==
    LET RECURSIVE Go(_)
        Go(rest) == IF rest = <<>> THEN <<>>
                    ELSE Repeat(Head(rest), per_batch) \o Go(Tail(rest))
    IN Go(cond_or_uncond)

\* [i for i, z in enumerate(conds) if z == cond_type]
enumerate_where(conds, cond_type) ==
    SelectSeq([p \in 1..Len(conds) |-> p - 1], LAMBDA i : conds[i + 1] = cond_type)

assign_idxs_mut_swapped(x_shape0, cond_or_uncond) ==
    LET batched_number == Len(cond_or_uncond)
        per_batch == x_shape0 \div batched_number
        conds == indiv_conds(cond_or_uncond, per_batch)
    IN [per_batch |-> per_batch,
        ref_uncond_idxs |-> enumerate_where(conds, 0),
        ref_cond_idxs |-> enumerate_where(conds, 1)]

assign_idxs(x_shape0, cond_or_uncond) ==
    LET batched_number == Len(cond_or_uncond)
        per_batch == x_shape0 \div batched_number
        conds == indiv_conds(cond_or_uncond, per_batch)
    IN [per_batch |-> per_batch,
        ref_uncond_idxs |-> enumerate_where(conds, 1),
        ref_cond_idxs |-> enumerate_where(conds, 0)]

\* the batches the sampler hands over: one chunk of per_batch latents per
\* entry of cond_or_uncond, each entry 0 (cond) or 1 (uncond)
CondOrUncond == UNION {[1..n -> {0, 1}] : n \in 1..MaxConds}

InitIdxs ==
    /\ attn_modules = [b \in Blocks |-> NewAttnHolder]
    /\ gn_modules = [b \in Blocks |-> NewGnHolder]
    /\ forward_timestep_embed = 0
    /\ context_ref_list = <<>>
    /\ pc = "idle"
    /\ ref_all = <<>>
    /\ ref_controlnets = <<>>
    /\ context_controlnets = <<>>
    /\ machine = [attn |-> OFF, adain |-> OFF]
    /\ orig_forward_timestep_embed = Unbound
    /\ next_ref = 1
    /\ topts = [keys |-> {}, per_batch |-> 0,
                ref_uncond_idxs |-> <<>>, ref_cond_idxs |-> <<>>]
    /\ passes = <<>>
    /\ attn_reads = NoReads
    /\ gn_reads = NoReads
    /\ outcome = "none"
    /\ uc_idx_mask = {}
    /\ n_out = <<>>
    /\ reference_injections = Registered
    /\ layer_forward = AllPatched
    /\ ctx_phase = "none"
    /\ kwargs = CallerKwargs
    /\ options = <<>>
    /\ controls = <<>>
    /\ called \in {[name |-> "arguments", x_shape0 |-> per_batch * Len(c),
                    cond_or_uncond |-> c] :
                      per_batch \in 1..MaxPerBatch, c \in CondOrUncond}

\* the interceptor writes the two index lists into transformer_options
AssignIdxs ==
    /\ called.name = "arguments"
    /\ \E a \in {assign_idxs(called.x_shape0, called.cond_or_uncond)} :
          topts' = [keys |-> {"ref_uncond_idxs", "ref_cond_idxs"},
                    per_batch |-> a.per_batch,
                    ref_uncond_idxs |-> a.ref_uncond_idxs,
                    ref_cond_idxs |-> a.ref_cond_idxs]
    /\ called' = [called EXCEPT !.name = "forward_inject_UNetModel"]
    /\ UNCHANGED <<attn_modules, gn_modules, forward_timestep_embed,
                   context_ref_list, pc, ref_all, ref_controlnets,
                   context_controlnets, machine, orig_forward_timestep_embed,
                   next_ref, passes, attn_reads, gn_reads, outcome, uc_idx_mask,
                   n_out, reference_injections, layer_forward, ctx_phase,
                   kwargs, options, controls>>

NextIdxs == AssignIdxs

SpecIdxs == InitIdxs /\ [][NextIdxs]_vars

IdxsAssigned == "ref_uncond_idxs" \in topts.keys

\* C31: for a batch of B = per_batch * len(cond_or_uncond) latents whose
\* cond_or_uncond entries are all 0 or 1, REF_COND_IDXS and REF_UNCOND_IDXS
\* are disjoint, together they are exactly the indices 0..B-1, and index i
\* is in REF_UNCOND_IDXS iff cond_or_uncond[i div per_batch] is 1.
C31_IdxsPartitionBatch ==
    IdxsAssigned =>
        LET B == topts.per_batch * Len(called.cond_or_uncond)
            uncond == Range(topts.ref_uncond_idxs)
            cond == Range(topts.ref_cond_idxs)
        IN /\ uncond \cap cond = {}
           /\ uncond \cup cond = 0..(B - 1)
           /\ \A i \in 0..(B - 1) :
                 i \in uncond <=>
                    called.cond_or_uncond[(i \div topts.per_batch) + 1] = 1

\* a batch of three chunks of two latents, cond, uncond, cond: the uncond
\* indices are 2 and 3
C31_Witness ==
    /\ IdxsAssigned
    /\ called.cond_or_uncond = <<0, 1, 0>>
    /\ topts.per_batch = 2
    /\ topts.ref_uncond_idxs = <<2, 3>>
    /\ topts.ref_cond_idxs = <<0, 1, 4, 5>>

\* ------------------------------------------------------------------------
\* should_run and values near zero (SpecShouldRun)

\* a non-zero value of the smallest magnitude the scale holds; isclose with
\* abs_tol 0 compares |w| with RelTolInv^-1 * |w|, so its answer for a
\* non-zero w does not depend on how small w is
NearZero(w) == w # 0 /\ Abs(w) <= 1

\* the only channel the unit's type enables is attention, and its weight
\* or its strength is near zero
OnlyAttnNearZero(u) ==
    /\ u.reference_type = ATTN
    /\ NearZero(u.attn_ref_weight) \/ NearZero(u.attn_strength)

OnlyAdainNearZero(u) ==
    /\ u.reference_type = ADAIN
    /\ NearZero(u.adain_ref_weight) \/ NearZero(u.adain_strength)

\* C32: an enabled channel whose ref_weight or strength is a non-zero value
\* close to zero counts as inactive, so a unit whose only enabled channel
\* has such a weight or strength does not run.
C32_NearZeroDoesNotRun ==
    (/\ pc = "filtered"
     /\ OnlyAttnNearZero(ref_all[1]) \/ OnlyAdainNearZero(ref_all[1]))
        => ref_controlnets = <<>>

\* ------------------------------------------------------------------------
\* The order-matching assertion across calls (Spec)

\* the entries of the READ r that no unit of the read-list units has the
\* order of
Unpaired(r, units) == {k \in 1..Len(r.orders) : r.orders[k] \notin OrdersOf(units)}

\* C33: across any sequence of calls of the interceptor, every bank entry a
\* layer READ is given has the order of some unit of that call's read-list,
\* so the order-matching assertion of the READ never fails.
C33_ReadOrdersInReadList ==
    \A b \in Blocks :
        /\ ~attn_reads[b].failed
        /\ ~gn_reads[b].failed
        /\ Unpaired(attn_reads[b], topts.lists.read_attn) = {}
        /\ Unpaired(gn_reads[b], topts.lists.read_adain) = {}

\* ------------------------------------------------------------------------
\* The size of the context-origin sub-banks across calls (Spec)

\* C34: across any sequence of calls of the interceptor, no layer's
\* context-origin sub-bank is ever longer than the number of ContextRef
\* units: context entries do not pile up from call to call, whatever the
\* ATTN and ADAIN machine states of the calls are.
C34_ContextBankBounded ==
    \A b \in Blocks :
        /\ Len(attn_modules[b].c_bank) <= Len(context_ref_list)
        /\ Len(gn_modules[b].c_var_bank) <= Len(context_ref_list)

\* ------------------------------------------------------------------------
\* ReferenceOptions objects and their clones (SpecClone): an options
\* object built by the nodes and held by one unit, its clones, the units
\* built over the clones, and pre_run_advanced on any unit

\* the options the nodes build
OptionsInputs ==
    {ReferenceOptions(type, af, gf, One, gw, as, One, others) :
        type \in {ATTN, ATTN_ADAIN}, af \in {Half, One}, gf \in {Half, One},
        gw \in {Half, One}, as \in {Half, One}, others \in BOOLEAN}

InitClone ==
    /\ attn_modules = [b \in Blocks |-> NewAttnHolder]
    /\ gn_modules = [b \in Blocks |-> NewGnHolder]
    /\ forward_timestep_embed = 0
    /\ context_ref_list = <<>>
    /\ pc = "idle"
    /\ ref_all = <<>>
    /\ ref_controlnets = <<>>
    /\ context_controlnets = <<>>
    /\ machine = [attn |-> OFF, adain |-> OFF]
    /\ orig_forward_timestep_embed = Unbound
    /\ next_ref = 1
    /\ topts = NoOpts
    /\ passes = <<>>
    /\ attn_reads = NoReads
    /\ gn_reads = NoReads
    /\ outcome = "none"
    /\ uc_idx_mask = {}
    /\ n_out = <<>>
    /\ reference_injections = Registered
    /\ layer_forward = AllPatched
    /\ ctx_phase = "none"
    /\ kwargs = CallerKwargs
    /\ options \in {<<o>> : o \in OptionsInputs}
    /\ controls = <<ReferenceAdvanced(1)>>
    /\ called = NotCalled

\* ReferenceAdvanced(ref_opts=o, ...) over an options object that no unit
\* holds yet (units that share an options object come from copy())
Construct ==
    /\ Len(controls) < MaxUnits
    /\ \E o \in DOMAIN options :
          /\ \A j \in DOMAIN controls : controls[j].ref_opts # o
          /\ controls' = Append(controls, ReferenceAdvanced(o))
          /\ called' = [name |-> "__init__", ref_opts |-> o,
                        return |-> Len(controls) + 1]
    /\ UNCHANGED options
    /\ UnitUnchanged

NextClone ==
    \/ Clone
    \/ Construct
    \/ PreRunAdvanced

SpecClone == InitClone /\ [][NextClone]_vars

\* what clone() takes over from its source as it is
SameSettings(c, s) ==
    /\ c.reference_type = s.reference_type
    /\ c.attn_ref_weight = s.attn_ref_weight
    /\ c.adain_ref_weight = s.adain_ref_weight
    /\ c.attn_strength = s.attn_strength
    /\ c.adain_strength = s.adain_strength
    /\ c.ref_with_other_cns = s.ref_with_other_cns

\* the original and the current fidelities of c are the originals of s
FidelitiesFromOriginals(c, s) ==
    /\ c.original_attn_style_fidelity = s.original_attn_style_fidelity
    /\ c.attn_style_fidelity = s.original_attn_style_fidelity
    /\ c.original_adain_style_fidelity = s.original_adain_style_fidelity
    /\ c.adain_style_fidelity = s.original_adain_style_fidelity

\* C35: clone() returns a new object with the source's reference_type,
\* ref weights, strengths and ref_with_other_cns, whose original and
\* current fidelities are the source's original fidelities, whatever the
\* source's current ones are; the call leaves the source as it is, and a
\* later change of the current fidelity of one options object (by
\* pre_run_advanced of a unit that holds it) changes no other object.
C35_CloneIsNewFromOriginals ==
    /\ [](called.name = "clone" =>
            /\ called.return # called.self
            /\ SameSettings(options[called.return], options[called.self])
            /\ FidelitiesFromOriginals(options[called.return], options[called.self]))
    /\ [][/\ called'.name = "clone" =>
                /\ called'.return \notin DOMAIN options
                /\ \A o \in DOMAIN options : options'[o] = options[o]
          /\ called'.name = "pre_run_advanced" =>
                \A o \in DOMAIN options \ {controls[called'.self].ref_opts} :
                    options'[o] = options[o]]_vars

\* the source had its attention fidelity 0.5 adjusted to 0.125, its clone
\* started from 0.5 again, and the clone's is the one now adjusted for the
\* refiner (0.5) while the source still stands at 0.125
C35_Witness ==
    /\ Len(options) = 2
    /\ called.name = "pre_run_advanced"
    /\ called.model = "SDXLRefiner"
    /\ controls[called.self].ref_opts = 2
    /\ options[1].original_attn_style_fidelity = Half
    /\ options[1].attn_style_fidelity = 125
    /\ options[2].original_attn_style_fidelity = Half
    /\ options[2].attn_style_fidelity = Half

\* ------------------------------------------------------------------------
\* The fidelity of a READ's final blend (SpecLayer)

\* the adain fidelities of the units of a list
AdainFidelities(units) == [k \in 1..Len(units) |-> units[k].adain_style_fidelity]

\* the fidelities of the entries the normalization READ of a call is given,
\* in bank order: those the holder g had, then those the call's write-list
\* gwl added, own-origin before context-origin; the context-origin ones are
\* left out if the call wrote one
GnConsumed(g, gwl) ==
    g.style_cfgs
    \o AdainFidelities(QualifiedGn(gwl, g.gn_weight, FALSE))
    \o (IF QualifiedGn(gwl, g.gn_weight, TRUE) # <<>> THEN <<>> ELSE g.c_style_cfgs)

\* C36: a normalization READ blends at the fidelity of the last entry it
\* consumed, in bank order (own-origin entries before context-origin ones),
\* also when the entries differ in fidelity; an attention READ blends at
\* the average over the entries it consumed.
C36_GnBlendsAtLastFidelity ==
    [][(pc = "idle" /\ pc' = "layer") =>
          \A b \in Blocks :
             /\ (passes'[1] = Pass("gn", b, "none") /\ gn_reads'[b].did) =>
                   \E consumed \in {GnConsumed(gn_modules[b], topts'.lists.write_adain)} :
                      /\ Len(consumed) = Len(gn_reads'[b].orders)
                      /\ gn_reads'[b].fid = consumed[Len(consumed)]
             /\ (/\ passes'[1] = Pass("attn", b, "none")
                 /\ attn_reads'[b].did
                 /\ topts'.lists.write_attn = <<>>) =>
                   \E consumed \in {attn_modules[b].style_cfgs
                                       \o attn_modules[b].c_style_cfgs} :
                      attn_reads'[b].fid = SeqSum(consumed) \div Len(consumed)]_vars

\* a normalization READ consumed an own-origin entry of fidelity 1.0 (order
\* 7) and then a context-origin entry of fidelity 0.0 (order -1), and
\* blended at 0.0, not at their average
C36_Witness ==
    \E b \in Blocks :
        /\ pc = "layer"
        /\ passes[1] = Pass("gn", b, "none")
        /\ gn_reads[b].did
        /\ gn_reads[b].orders = <<7, 0 - 1>>
        /\ gn_reads[b].n_ctx = 1
        /\ gn_modules[b].c_style_cfgs = <<0>>
        /\ gn_reads[b].fid = 0

====
